---- MODULE Spec2Model ----
(***************************************************************************)
(* Page Insight Tool: the fetch - parse - probe pipeline.                  *)
(*                                                                         *)
(*   Engine.Analyze            backend/internal/pageinsight/engine.go      *)
(*   LinkChecker (worker pool) the link checker with the GET fallback      *)
(*                                                                         *)
(* The main goroutine runs Engine.Analyze and, inside it,                  *)
(* CheckLinksWithWorkerPool; the workers and the goroutine that closes the *)
(* results channel run concurrently with it.  The ambient context can be   *)
(* cancelled at any moment.                                                *)
(***************************************************************************)
EXTENDS Integers, Sequences, FiniteSets, TLC

\* ---------------------------------------------------------------- bounds
\* Longest link list of a parsed page / of a direct call of the link checker.
MaxPageLinks == 3
\* Largest configured worker-pool size (LinkChecker.concurrency).
MaxConcurrency == 2

\* Longest chain of redirects a server sends.
MaxChain == 7

\* Longest document of titles or headings, of anchors or inputs, of doctypes.
MaxTokens == 5

MaxTags == 3

MaxDoctypes == 2
MaxReads == 4

\* ------------------------------------------------------ program constants
maxLinks == 1000
maxRedirects == 5
maxResponseBody == 10485760

\* ------------------------------------------------------------- universes
\* Links a page can hold, as classifyLink produces them for the base host
\* example.com: the URL string and whether its host is the base host.
LinkA == [URL |-> "https://example.com/a", IsInternal |-> TRUE]
LinkB == [URL |-> "https://other.com/b", IsInternal |-> FALSE]
LinkUniverse == {LinkA, LinkB}

\* A string http.NewRequestWithContext cannot turn into a request.
BadURL == "://bad-url"
\* Strings a caller can hand to CheckLinksWithWorkerPool directly.
URLStrings == {LinkA.URL, BadURL}

\* Strings a caller can hand to checkLink or getProbe directly.
ProbeLinks == {LinkA.URL, LinkB.URL, BadURL}

\* Status codes a probed server answers with.
Statuses == {200, 301, 401, 403, 404, 405, 500}

\* What url.Parse makes of the target URL handed to Analyze.
Targets ==
  { [raw |-> "https://example.com", parseErr |-> FALSE, Scheme |-> "https", Host |-> "example.com"],
    [raw |-> "http://example.com", parseErr |-> FALSE, Scheme |-> "http", Host |-> "example.com"],
    [raw |-> "", parseErr |-> FALSE, Scheme |-> "", Host |-> ""],
    [raw |-> "not-a-valid-url", parseErr |-> FALSE, Scheme |-> "", Host |-> ""],
    [raw |-> "//example.com/x", parseErr |-> FALSE, Scheme |-> "", Host |-> "example.com"],
    [raw |-> "https://", parseErr |-> FALSE, Scheme |-> "https", Host |-> ""],
    [raw |-> "ftp://example.com", parseErr |-> FALSE, Scheme |-> "ftp", Host |-> "example.com"],
    [raw |-> "file:///etc/passwd", parseErr |-> FALSE, Scheme |-> "file", Host |-> ""],
    [raw |-> "://bad", parseErr |-> TRUE, Scheme |-> "", Host |-> ""] }

\* The targets that are followed through the whole pipeline, link checks
\* included.
PipelineTargets ==
  {t \in Targets : t.raw \in {"https://example.com", "not-a-valid-url", "ftp://example.com", "://bad"}}

\* No Analyze call: the link checker is called on its own.
NoTarget == [raw |-> "", parseErr |-> FALSE, Scheme |-> "", Host |-> ""]

\* Status codes the fetched page answers with.
FetchStatuses == {200, 400, 404, 500}

\* Errors e.fetcher.Fetch returns when there is no response to read.
FetchErrors == {"connection refused", "too many redirects"}

\* What z.Err() is when the tokenizer of Parse yields its ErrorToken.
StreamErrors == {"EOF", "unexpected EOF", "read: connection reset"}

\* ------------------------------------------------------------- helpers
Min(a, b) == IF a <= b THEN a ELSE b

SeqsUpTo(S, n) == UNION {[1..k -> S] : k \in 0..n}

Range(s) == {s[i] : i \in 1..Len(s)}


\* ------------------------------------------------------------- state
VARIABLES
  ctx,            \* ctx.Err() of the ambient context
  target,         \* url.Parse of the targetURL argument of Analyze
  stage,          \* position of Engine.Analyze ("Direct": the link checker is called directly)
  err,            \* the *errs.AppError Analyze returned, or NoError
  parseLinks,     \* parseResult.Links
  linkURLs,       \* the slice Analyze hands to the link checker
  internalCount,
  externalCount,
  analysis,       \* model.LinkStats of the returned PageAnalysis, or NoAnalysis
  hist,           \* history: what Analyze called so far, and what the calls returned
  concurrency,    \* lc.concurrency
  pc,             \* position of the main goroutine in CheckLinksWithWorkerPool
  links,          \* links[:limit]
  sent,           \* number of links the enqueue loop has sent on jobs
  jobs,           \* the jobs channel (buffered, FIFO)
  jobsClosed,
  results,        \* the results channel (buffered, FIFO)
  resultsClosed,
  workers,        \* the worker goroutines wg.Go started
  wg,             \* the WaitGroup counter
  closer,         \* the goroutine of lines 112-115
  inaccessible,   \* the tally of the collecting loop
  ret,            \* the value CheckLinksWithWorkerPool returned (pc = "returned")
  taken,          \* history: the links workers received from jobs, in order
  verdictsAll,    \* history: number of checkLink calls that returned
  verdictsBad,    \* history: number of checkLink calls that returned true
  probe,          \* a call of checkLink or getProbe made on its own (not by a worker)
  http,           \* one request served by Transport.handleAnalyze
  redirect,       \* one client.Do of HTTPClient.Fetch and the redirects it follows
  dial,           \* one call of the dialer's Control function
  cap,            \* a call of CheckLinksWithWorkerPool on a list too long to write out
  parse,          \* Parse called on a document, token by token
  body,           \* the body Fetch returned, read to its end by the tokenizer
  config          \* the environment of the process and what config.Load made of it

engineVars == <<target, stage, err, parseLinks, linkURLs, internalCount, externalCount, analysis,
                hist>>
poolVars == <<pc, links, sent, jobs, jobsClosed, results, resultsClosed, workers, wg,
              closer, inaccessible, ret, taken, verdictsAll, verdictsBad>>
vars == <<ctx, engineVars, concurrency, poolVars, probe, cap, http, redirect, dial, parse, body, config>>

NoError == [Kind |-> "none", UpstreamStatus |-> 0, Cause |-> "nil"]
NoAnalysis == [Internal |-> -1, External |-> -1, Inaccessible |-> -1]

\* Analyze has called nothing yet: fetchCalls, parseCalls and probeCalls count
\* the calls of e.fetcher.Fetch, Parse and CheckLinksWithWorkerPool; fetchErr
\* and statusCode are what Fetch returned, zErr the error the token stream of
\* Parse ended with; closes counts the calls of body.Close().
NoHist ==
  [fetchCalls |-> 0, fetchErr |-> "nil", statusCode |-> 0, parseCalls |-> 0, zErr |-> "nil",
   probeCalls |-> 0, closes |-> 0]

WorkerIds == 1..MaxConcurrency

\* A worker goroutine: pc is "none" (never started), "recv" (waiting in
\* "for link := range jobs"), "head" or "get" (that request of checkLink is on
\* the wire; link is the link being checked), "send" (checkLink returned bad
\* and the worker is at "results <-"), or "exit".
IdleWorker(p) == [pc |-> p, link |-> "", bad |-> FALSE, failed |-> FALSE]

\* One call of checkLink (or of getProbe), with what it saw: pc is "head" or
\* "get" (that request is on the wire) or "send" (it returned bad); head and
\* get are the status codes the HEAD and the GET were answered with (0: no
\* response); dos counts the calls of lc.client.Do; failed: client.Do returned
\* an error, and ctxErr is what ctx.Err() then was; reqs are the requests handed
\* to lc.client.Do, in order.
NewCheck(link, p) ==
  [pc |-> p, link |-> link, head |-> 0, get |-> 0, dos |-> 0, failed |-> FALSE,
   ctxErr |-> "nil", bad |-> FALSE, reqs |-> <<>>]

\* The request checkLink (p = "head", line 47) or getProbe (p = "get", lines
\* 67-71) builds.
Request(p) ==
  IF p = "head" THEN [Method |-> "HEAD", Range |-> ""]
  ELSE [Method |-> "GET", Range |-> "bytes=0-0"]

\* No call of checkLink is made on its own.
NoProbe == [entry |-> "none", startCtx |-> "nil", chk |-> NewCheck("", "idle")]

\* A call of CheckLinksWithWorkerPool on a list of n links, the links known by
\* their position 1..n only: pc is the position of the main goroutine; sent,
\* taken and read count the links sent on jobs, received by a worker (checked,
\* verdict sent on results) and verdicts received by the collecting loop;
\* running is the WaitGroup counter.
NoCap ==
  [pc |-> "idle", n |-> 0, limit |-> 0, sent |-> 0, taken |-> 0, read |-> 0, running |-> 0,
   jobsClosed |-> FALSE, closer |-> "none", resultsClosed |-> FALSE, inaccessible |-> 0,
   ret |-> 0]

\* What a worker keeps of a call of checkLink: where it is, the verdict, and
\* whether the call ended because lc.client.Do returned an error.
WorkerOf(chk) ==
  IF chk.pc = "send"
    THEN [pc |-> "send", link |-> "", bad |-> chk.bad, failed |-> chk.failed]
    ELSE [pc |-> chk.pc, link |-> chk.link, bad |-> FALSE, failed |-> FALSE]

\* ------------------------------------------------- Engine.Analyze (pure parts)
\* engine.go 83-84: one URL per link occurrence, in page order.
CollectLinkURLs(ls) == [i \in 1..Len(ls) |-> ls[i].URL]

\* (mutant) the external links are counted after deduplication.
CountExternalDistinct(ls) == Cardinality({ls[i].URL : i \in {j \in 1..Len(ls) : ~ls[j].IsInternal}})

\* engine.go 85-89
CountInternal(ls) == Cardinality({i \in 1..Len(ls) : ls[i].IsInternal})
CountExternal(ls) == Cardinality({i \in 1..Len(ls) : ~ls[i].IsInternal})

\* (mutant) the scheme is not checked against http and https.
ValidateKindAnyScheme(t) ==
  IF t.parseErr THEN "InvalidInput"
  ELSE IF t.Scheme = "" \/ t.Host = "" THEN "InvalidInput"
  ELSE "none"

\* engine.go 32-51: the error kind validation ends with, "none" when it passes.
ValidateKind(t) ==
  IF t.parseErr THEN "InvalidInput"
  ELSE IF t.Scheme = "" \/ t.Host = "" THEN "InvalidInput"
  ELSE IF t.Scheme # "http" /\ t.Scheme # "https" THEN "InvalidInput"
  ELSE "none"

\* engine.go 34-50: the error a failed validation returns.
ValidationError(t) ==
  [Kind |-> ValidateKind(t), UpstreamStatus |-> 0,
   Cause |-> IF t.parseErr THEN "url.Parse" ELSE "nil"]

\* (mutant) the error of Fetch is not kept as the cause.
FetchErrorNoCause(fetchErr) == [Kind |-> "Unreachable", UpstreamStatus |-> 0, Cause |-> "nil"]

\* engine.go 55-59: the error Analyze returns when Fetch returned fetchErr.
FetchError(fetchErr) == [Kind |-> "Unreachable", UpstreamStatus |-> 0, Cause |-> fetchErr]

\* (mutant) the status code is not reported.
StatusErrorNoStatus(statusCode) == [Kind |-> "Unreachable", UpstreamStatus |-> 0, Cause |-> "nil"]

\* engine.go 63-68: the error Analyze returns for a status code >= 400.
StatusError(statusCode) == [Kind |-> "Unreachable", UpstreamStatus |-> statusCode, Cause |-> "nil"]

\* (mutant) every end of the token stream counts as a clean one.
ParseSucceedsAlways(zErr) == TRUE

\* Parse, the ErrorToken case: "if errors.Is(z.Err(), io.EOF) { return result, nil }".
ParseSucceeds(zErr) == zErr = "EOF"

\* engine.go 73-77: the error Analyze returns when Parse returned parseErr.
ParseError(parseErr) == [Kind |-> "ParsingFailed", UpstreamStatus |-> 0, Cause |-> parseErr]

\* func (e *AppError) Unwrap() error { return e.Cause }
Unwrap(appErr) == appErr.Cause

\* ------------------------------------------------- LinkChecker (pure parts)
\* (mutant) the list is not capped.
LimitOfLenNoCap(n) == n

\* limit := min(len(links), maxLinks), for a list of n links
LimitOfLen(n) == Min(n, maxLinks)

\* limit := min(len(links), maxLinks)
LimitOf(ls) == LimitOfLen(Len(ls))

\* links = links[:limit]
CapLinks(ls) == SubSeq(ls, 1, LimitOf(ls))

NumWorkersOnePerLink(limit, conc) == limit

\* numWorkers := min(limit, lc.concurrency)
NumWorkers(limit, conc) == Min(limit, conc)

\* (mutant) a malformed link is not noticed when the request is built.
NewRequestNeverFails(link) == FALSE

\* http.NewRequestWithContext returns an error for this link.
NewRequestFails(link) == link = BadURL

\* (mutant) a failed request always blames the link.
JudgeFailureAlways(ctxErr) == TRUE

\* "return ctx.Err() == nil": a failed request blames the link only if the
\* context was not cancelled.
JudgeFailure(ctxErr) == ctxErr = "nil"

\* (mutant) only server errors count.
JudgeStatusServerErrors(code) == code >= 500

\* "return resp.StatusCode >= 400"
JudgeStatus(code) == code >= 400

\* (mutant) no GET fallback.
WantsGetProbeNever(code) == FALSE

\* resp.StatusCode == http.StatusForbidden || resp.StatusCode == http.StatusMethodNotAllowed
WantsGetProbe(code) == code = 403 \/ code = 405

\* ------------------------------------------------- analyzer: errors
\* An error value is the chain errors.Unwrap walks, outermost error first; the
\* nil error is the empty chain.  A link of the chain is an *errs.AppError
\* (isApp) or an error of another type, which has a text only.
NilError == <<>>

AppError(kind, upstreamStatus, message) ==
  [isApp |-> TRUE, Kind |-> kind, UpstreamStatus |-> upstreamStatus, Message |-> message]

PlainError(text) == [isApp |-> FALSE, Kind |-> "", UpstreamStatus |-> 0, Message |-> text]

\* &errs.AppError{..., Cause: cause}
WithCause(appErr, cause) == <<appErr>> \o cause

\* What the provider's errors wrap.
Causes == {NilError, <<PlainError("dial tcp: connection refused")>>}

\* The AppErrors a PageInsightProvider returns.
ProviderAppErrors ==
  { AppError("InvalidInput", 0, "Only http and https URLs are supported."),
    AppError("Unreachable", 0, "The provided URL could not be reached. Check the address."),
    AppError("Unreachable", 404, "The provided URL returned an error status."),
    AppError("ParsingFailed", 0, "Failed to parse the HTML content."),
    AppError("Timeout", 0, "upstream timed out"),
    AppError("Unknown", 0, "something went wrong") }

\* The errors a PageInsightProvider returns: typed ones, with or without a
\* cause, and one that is no AppError.
ProviderErrors ==
  {WithCause(e, c) : e \in ProviderAppErrors, c \in Causes} \cup {<<PlainError("boom")>>}

\* errors.As(err, &appErr): the first AppError of the chain, if any.
HasAppError(e) == \E i \in 1..Len(e) : e[i].isApp
AsAppError(e) == e[CHOOSE i \in 1..Len(e) : e[i].isApp /\ \A j \in 1..(i - 1) : ~e[j].isApp]

\* The error Engine.Analyze returned on target t (engine.go 34-78), as the
\* chain the Service sees: e is the AppError's kind, upstream status and cause.
AnalyzeError(e, t) ==
  WithCause(
    AppError(e.Kind, e.UpstreamStatus,
      CASE e.Kind = "InvalidInput" ->
             IF t.parseErr \/ t.Scheme = "" \/ t.Host = ""
               THEN "Invalid URL format. Please ensure you entered a valid URL (e.g., https://example.com)."
               ELSE "Only http and https URLs are supported."
        [] e.Kind = "Unreachable" ->
             IF e.UpstreamStatus = 0
               THEN "The provided URL could not be reached. Check the address."
               ELSE "The provided URL returned an error status."
        [] OTHER -> "Failed to parse the HTML content."),
    IF e.Cause = "nil" THEN NilError ELSE <<PlainError(e.Cause)>>)

\* ------------------------------------------------- analyzer: Service.Analyze
TimeoutError == AppError("Timeout", 0, "Analysis timed out. The target URL may be slow to respond.")

\* (mutant) a cancelled context counts as a timeout too.
ReclassifyOnDone(e, ctxErr) ==
  IF ctxErr # "nil" THEN WithCause(TimeoutError, e) ELSE e

\* (mutant) an error that is typed already keeps its kind.
ReclassifyUntyped(e, ctxErr) ==
  IF ctxErr = "DeadlineExceeded" /\ ~HasAppError(e) THEN WithCause(TimeoutError, e) ELSE e

\* service.go 30-36: the error Service.Analyze returns for the provider's
\* error e when ctx.Err() is ctxErr.
Reclassify(e, ctxErr) ==
  IF ctxErr = "DeadlineExceeded" THEN WithCause(TimeoutError, e) ELSE e

\* ------------------------------------------------- analyzer: Transport
\* http.StatusText
StatusText(status) ==
  CASE status = 200 -> "OK"
    [] status = 400 -> "Bad Request"
    [] status = 500 -> "Internal Server Error"
    [] status = 502 -> "Bad Gateway"
    [] status = 504 -> "Gateway Timeout"
    [] OTHER -> ""

\* renderJSON: the status written with w.WriteHeader and the encoded body.
renderJSON(status, data) == [status |-> status, body |-> data]

\* renderError: a model.ErrorResponse written with the same status.
renderError(status, message) ==
  renderJSON(status, [error |-> StatusText(status), status_code |-> status, message |-> message])

\* (mutant) the Timeout case is missing from the switch.
StatusOfNoTimeoutCase(kind) ==
  CASE kind = "InvalidInput" -> 400
    [] kind = "Unreachable" -> 502
    [] OTHER -> 500

\* handleServiceError, the switch on appErr.Kind.
StatusOf(kind) ==
  CASE kind = "InvalidInput" -> 400
    [] kind = "Unreachable" -> 502
    [] kind = "Timeout" -> 504
    [] OTHER -> 500

handleServiceErrorShowsCause(e) ==
  IF HasAppError(e)
    THEN renderError(StatusOf(AsAppError(e).Kind), e[Len(e)].Message)
    ELSE renderError(500, "An unexpected error occurred.")

handleServiceError(e) ==
  IF HasAppError(e)
    THEN renderError(StatusOf(AsAppError(e).Kind), AsAppError(e).Message)
    ELSE renderError(500, "An unexpected error occurred.")

\* The body of a POST /analyze request, as json.Decode and validate see it.
Bodies == {"not JSON", "{\"url\": \"\"}", "{\"url\": \"https://example.com\"}"}

\* The PageAnalysis a provider returns (its link counts).
Analyses == {[Internal |-> 1, External |-> 0, Inaccessible |-> 0]}

NoResponse == [status |-> 0, body |-> [error |-> "", status_code |-> 0, message |-> ""]]

\* No request is being served.  pc is the position of handleAnalyze: "decode"
\* (before json.Decode), "provider" (inside s.provider.Analyze), "service"
\* (Service.Analyze at line 29, the provider returned provErr), "handler"
\* (Service.Analyze returned svcErr to handleAnalyze), "responded".  ctxSeen
\* is what ctx.Err() was at line 30.
NoHTTP ==
  [pc |-> "idle", reqBody |-> "", serviceCalls |-> 0, provErr |-> NilError, ctxSeen |-> "nil",
   svcErr |-> NilError, responses |-> 0, resp |-> NoResponse]

\* ------------------------------------------------- HTTPClient: redirects
\* Schemes of the URL a page is fetched from, and of a Location a server
\* redirects to.
FetchSchemes == {"http", "https"}
RedirectSchemes == {"http", "https", "ftp", "file"}

\* (mutant) the chain is cut one request later.
safeRedirectPolicyOneMore(scheme, via) ==
  IF Len(via) > maxRedirects THEN "too many redirects"
  ELSE IF scheme # "http" /\ scheme # "https" THEN "redirect to non-http(s) scheme blocked"
  ELSE "nil"

\* safeRedirectPolicy(req, via): scheme is req.URL.Scheme, via the requests
\* made so far (their schemes), oldest first; the result is the sentinel error
\* the returned error wraps, or "nil".
safeRedirectPolicy(scheme, via) ==
  IF Len(via) >= maxRedirects THEN "too many redirects"
  ELSE IF scheme # "http" /\ scheme # "https" THEN "redirect to non-http(s) scheme blocked"
  ELSE "nil"

\* No fetch is going on.  pc is "request" (a request is on the wire) or
\* "done" (client.Do returned); via holds the scheme of every request made;
\* refused is the scheme of the redirect target the policy turned down, err
\* the error client.Do returned.
NoRedirect == [pc |-> "idle", via |-> <<>>, refused |-> "", err |-> "nil"]

\* ------------------------------------------------- safe dialer
\* A netip.Addr: an IPv4 address with its four bytes, or an IPv6 address with
\* its eight 16-bit groups.
IPv4(a, b, c, d) == [is4 |-> TRUE, w |-> <<a, b, c, d>>]
IPv6(g) == [is4 |-> FALSE, w |-> g]

\* ::ffff:a.b.c.d
Mapped(v4) ==
  IPv6(<<0, 0, 0, 0, 0, 65535, v4.w[1] * 256 + v4.w[2], v4.w[3] * 256 + v4.w[4]>>)

\* netip.Addr.Is4In6
Is4In6(addr) ==
  ~addr.is4 /\ (\A i \in 1..5 : addr.w[i] = 0) /\ addr.w[6] = 65535

\* netip.Addr.Unmap
Unmap(addr) ==
  IF Is4In6(addr)
    THEN IPv4(addr.w[7] \div 256, addr.w[7] % 256, addr.w[8] \div 256, addr.w[8] % 256)
    ELSE addr

\* netip.Addr.IsLoopback, IsMulticast, IsLinkLocalUnicast, IsPrivate and
\* IsGlobalUnicast (each looks at the unmapped address).
IsLoopback(addr) ==
  LET u == Unmap(addr)
  IN  IF u.is4 THEN u.w[1] = 127 ELSE u.w = <<0, 0, 0, 0, 0, 0, 0, 1>>

IsMulticast(addr) ==
  LET u == Unmap(addr)
  IN  IF u.is4 THEN u.w[1] \div 16 = 14 ELSE u.w[1] \div 256 = 255

IsLinkLocalUnicast(addr) ==
  LET u == Unmap(addr)
  IN  IF u.is4 THEN u.w[1] = 169 /\ u.w[2] = 254 ELSE u.w[1] \div 64 = 1018

IsPrivate(addr) ==
  LET u == Unmap(addr)
  IN  IF u.is4
        THEN \/ u.w[1] = 10
             \/ u.w[1] = 172 /\ u.w[2] \div 16 = 1
             \/ u.w[1] = 192 /\ u.w[2] = 168
        ELSE u.w[1] \div 512 = 126

IsGlobalUnicast(addr) ==
  LET u == Unmap(addr)
  IN  /\ ~(u.is4 /\ (u.w = <<0, 0, 0, 0>> \/ u.w = <<255, 255, 255, 255>>))
      /\ ~(~u.is4 /\ u.w = <<0, 0, 0, 0, 0, 0, 0, 0>>)
      /\ ~IsLoopback(u)
      /\ ~IsMulticast(u)
      /\ ~IsLinkLocalUnicast(u)

\* netip.Prefix of an IPv4 network: its address bytes and its length in bits.
Prefix(a, b, c, d, bits) == [w |-> <<a, b, c, d>>, bits |-> bits]

reservedPrefixes ==
  << Prefix(100, 64, 0, 0, 10),
     Prefix(192, 0, 0, 0, 24),
     Prefix(192, 0, 2, 0, 24),
     Prefix(198, 18, 0, 0, 15),
     Prefix(198, 51, 100, 0, 24),
     Prefix(203, 0, 113, 0, 24) >>

\* How many of the leading bits of byte i a prefix of that length covers.
BitsOfByte(bits, i) ==
  IF bits >= 8 * i THEN 8 ELSE IF bits <= 8 * (i - 1) THEN 0 ELSE bits - 8 * (i - 1)

\* netip.Prefix.Contains: an IPv4 prefix holds IPv4 addresses only, and not
\* the IPv4-mapped IPv6 form of one.
Contains(p, addr) ==
  /\ addr.is4
  /\ \A i \in 1..4 :
       addr.w[i] \div 2^(8 - BitsOfByte(p.bits, i)) = p.w[i] \div 2^(8 - BitsOfByte(p.bits, i))

\* (mutant) the address is not unmapped first.
isBlockedIPNoUnmap(addr) ==
  \/ ~IsGlobalUnicast(addr) \/ IsPrivate(addr)
  \/ \E i \in 1..Len(reservedPrefixes) : Contains(reservedPrefixes[i], addr)

isBlockedIP(addr) ==
  LET u == Unmap(addr)
  IN  \/ ~IsGlobalUnicast(u) \/ IsPrivate(u)
      \/ \E i \in 1..Len(reservedPrefixes) : Contains(reservedPrefixes[i], u)

\* Bytes the dialled IPv4 addresses are made of, position by position: the
\* ends of every range the classifier knows, and their neighbours.
Bytes1 == {0, 8, 10, 100, 127, 169, 172, 192, 198, 203, 224, 239, 255}
Bytes2 == {0, 8, 15, 16, 18, 19, 31, 32, 51, 63, 64, 127, 128, 168, 254, 255}
Bytes3 == {0, 2, 8, 100, 113, 169, 255}
Bytes4 == {0, 1, 8, 254, 255}

V4Addrs == {IPv4(a, b, c, d) : a \in Bytes1, b \in Bytes2, c \in Bytes3, d \in Bytes4}

\* IPv6 addresses that map no IPv4 address: ::, ::1, fe80::1, ff02::1,
\* fc00::1, fd12:3456::1, 2001:4860:4860::8888, 2001:db8::1, ::7f00:1.
V6Addrs ==
  { IPv6(<<0, 0, 0, 0, 0, 0, 0, 0>>),
    IPv6(<<0, 0, 0, 0, 0, 0, 0, 1>>),
    IPv6(<<65152, 0, 0, 0, 0, 0, 0, 1>>),
    IPv6(<<65282, 0, 0, 0, 0, 0, 0, 1>>),
    IPv6(<<64512, 0, 0, 0, 0, 0, 0, 1>>),
    IPv6(<<64786, 13398, 0, 0, 0, 0, 0, 1>>),
    IPv6(<<8193, 18528, 18528, 0, 0, 0, 0, 34952>>),
    IPv6(<<8193, 3512, 0, 0, 0, 0, 0, 1>>),
    IPv6(<<0, 0, 0, 0, 0, 0, 32512, 1>>) }

\* The addresses a connection is dialled to.
DialAddrs == V4Addrs \cup {Mapped(a) : a \in V4Addrs} \cup V6Addrs

\* What netip.ParseAddrPort leaves when the address string does not parse.
NoAddr == [is4 |-> TRUE, w |-> <<>>]

\* No connection is being dialled.  parsed: netip.ParseAddrPort succeeded;
\* blocked: blockPrivateAddresses returned an error.
NoDial == [pc |-> "idle", parsed |-> TRUE, addr |-> NoAddr, blocked |-> FALSE]

\* ------------------------------------------------- Parse: strings
\* The bytes of the strings Parse looks into, one one-character string per byte.
Chars ==
  ("" :> <<>>) @@
  ("public" :> <<"p", "u", "b", "l", "i", "c">>) @@
  ("xhtml 1.1" :> <<"x", "h", "t", "m", "l", " ", "1", ".", "1">>) @@
  ("xhtml basic 1.1" :> <<"x", "h", "t", "m", "l", " ", "b", "a", "s", "i", "c", " ", "1", ".", "1">>) @@
  ("xhtml 1.0" :> <<"x", "h", "t", "m", "l", " ", "1", ".", "0">>) @@
  ("html 4.01" :> <<"h", "t", "m", "l", " ", "4", ".", "0", "1">>) @@
  ("password" :> <<"p", "a", "s", "s", "w", "o", "r", "d">>) @@
  ("PASSWORD" :> <<"P", "A", "S", "S", "W", "O", "R", "D">>) @@
  ("Password" :> <<"P", "a", "s", "s", "w", "o", "r", "d">>) @@
  ("text" :> <<"t", "e", "x", "t">>) @@
  ("passwords" :> <<"p", "a", "s", "s", "w", "o", "r", "d", "s">>) @@
  ("example.com" :> <<"e", "x", "a", "m", "p", "l", "e", ".", "c", "o", "m">>) @@
  ("EXAMPLE.COM" :> <<"E", "X", "A", "M", "P", "L", "E", ".", "C", "O", "M">>) @@
  ("other.com" :> <<"o", "t", "h", "e", "r", ".", "c", "o", "m">>) @@
  ("First" :> <<"F", "i", "r", "s", "t">>) @@
  (" First " :> <<" ", "F", "i", "r", "s", "t", " ">>) @@
  ("Second" :> <<"S", "e", "c", "o", "n", "d">>) @@
  ("\n Second\t" :> <<"\n", " ", "S", "e", "c", "o", "n", "d", "\t">>) @@
  (" " :> <<" ">>) @@
  ("html" :> <<"h", "t", "m", "l">>) @@
  ("HTML" :> <<"H", "T", "M", "L">>) @@
  ("html SYSTEM \"about:legacy-compat\"" :> <<"h", "t", "m", "l", " ", "S", "Y", "S", "T", "E", "M", " ", "\"", "a", "b", "o", "u", "t", ":", "l", "e", "g", "a", "c", "y", "-", "c", "o", "m", "p", "a", "t", "\"">>) @@
  ("HTML PUBLIC \"-//W3C//DTD HTML 4.01//EN\"" :> <<"H", "T", "M", "L", " ", "P", "U", "B", "L", "I", "C", " ", "\"", "-", "/", "/", "W", "3", "C", "/", "/", "D", "T", "D", " ", "H", "T", "M", "L", " ", "4", ".", "0", "1", "/", "/", "E", "N", "\"">>) @@
  ("html public \"-//w3c//dtd html 4.01 transitional//en\"" :> <<"h", "t", "m", "l", " ", "p", "u", "b", "l", "i", "c", " ", "\"", "-", "/", "/", "w", "3", "c", "/", "/", "d", "t", "d", " ", "h", "t", "m", "l", " ", "4", ".", "0", "1", " ", "t", "r", "a", "n", "s", "i", "t", "i", "o", "n", "a", "l", "/", "/", "e", "n", "\"">>) @@
  ("html PUBLIC \"-//W3C//DTD XHTML 1.0 Strict//EN\"" :> <<"h", "t", "m", "l", " ", "P", "U", "B", "L", "I", "C", " ", "\"", "-", "/", "/", "W", "3", "C", "/", "/", "D", "T", "D", " ", "X", "H", "T", "M", "L", " ", "1", ".", "0", " ", "S", "t", "r", "i", "c", "t", "/", "/", "E", "N", "\"">>) @@
  ("html PUBLIC \"-//W3C//DTD XHTML 1.1//EN\"" :> <<"h", "t", "m", "l", " ", "P", "U", "B", "L", "I", "C", " ", "\"", "-", "/", "/", "W", "3", "C", "/", "/", "D", "T", "D", " ", "X", "H", "T", "M", "L", " ", "1", ".", "1", "/", "/", "E", "N", "\"">>) @@
  ("html PUBLIC \"-//W3C//DTD XHTML Basic 1.1//EN\"" :> <<"h", "t", "m", "l", " ", "P", "U", "B", "L", "I", "C", " ", "\"", "-", "/", "/", "W", "3", "C", "/", "/", "D", "T", "D", " ", "X", "H", "T", "M", "L", " ", "B", "a", "s", "i", "c", " ", "1", ".", "1", "/", "/", "E", "N", "\"">>) @@
  ("HTML PUBLIC \"-//W3C//DTD HTML 3.2 Final//EN\"" :> <<"H", "T", "M", "L", " ", "P", "U", "B", "L", "I", "C", " ", "\"", "-", "/", "/", "W", "3", "C", "/", "/", "D", "T", "D", " ", "H", "T", "M", "L", " ", "3", ".", "2", " ", "F", "i", "n", "a", "l", "/", "/", "E", "N", "\"">>) @@
  ("html PUBLIC \"-//X//DTD HTML 4.01 with XHTML 1.0//EN\"" :> <<"h", "t", "m", "l", " ", "P", "U", "B", "L", "I", "C", " ", "\"", "-", "/", "/", "X", "/", "/", "D", "T", "D", " ", "H", "T", "M", "L", " ", "4", ".", "0", "1", " ", "w", "i", "t", "h", " ", "X", "H", "T", "M", "L", " ", "1", ".", "0", "/", "/", "E", "N", "\"">>) @@
  ("note SYSTEM \"public.dtd\"" :> <<"n", "o", "t", "e", " ", "S", "Y", "S", "T", "E", "M", " ", "\"", "p", "u", "b", "l", "i", "c", ".", "d", "t", "d", "\"">>)

String(bytes) == CHOOSE s \in DOMAIN Chars : Chars[s] = bytes

Whitespace == {" ", "\t", "\n", "\r"}

\* strings.ToLower, on bytes.
stringsToLower(s) ==
  LET UpperCase == <<"A", "B", "C", "D", "E", "F", "G", "H", "I", "J", "K", "L", "M",
                     "N", "O", "P", "Q", "R", "S", "T", "U", "V", "W", "X", "Y", "Z">>
      LowerCase == <<"a", "b", "c", "d", "e", "f", "g", "h", "i", "j", "k", "l", "m",
                     "n", "o", "p", "q", "r", "s", "t", "u", "v", "w", "x", "y", "z">>
  IN  [i \in 1..Len(s) |->
         IF \E k \in 1..Len(UpperCase) : UpperCase[k] = s[i]
         THEN LowerCase[CHOOSE k \in 1..Len(UpperCase) : UpperCase[k] = s[i]]
         ELSE s[i]]

\* strings.Contains, on bytes.
stringsContains(s, substr) ==
  \E i \in 0..(Len(s) - Len(substr)) : \A j \in 1..Len(substr) : s[i + j] = substr[j]

stringsEqualFoldExact(s, t) == s = t

\* strings.EqualFold, on bytes (ASCII letters fold to their lower case).
stringsEqualFold(s, t) == stringsToLower(s) = stringsToLower(t)

\* strings.TrimSpace, on bytes.
stringsTrimSpace(s) ==
  LET inside == {i \in 1..Len(s) : s[i] \notin Whitespace}
  IN  IF inside = {} THEN <<>>
      ELSE LET first == CHOOSE i \in inside : \A k \in inside : i <= k
               last  == CHOOSE i \in inside : \A k \in inside : k <= i
           IN  SubSeq(s, first, last)

\* ------------------------------------------------- Parse: tokens
\* html.Token as z.Next() hands it over: tag names and attribute keys are
\* already lower case, attribute values and text are as written.
HeadingTags == {"h1", "h2", "h3", "h4", "h5", "h6"}

Attribute(key, val) == [Key |-> key, Val |-> val]

\* html.Token: Data is the tag name of a tag, the text of a text token, the
\* text after "<!DOCTYPE" of a doctype token.
Token(type, data, attr) == [Type |-> type, Data |-> data, Attr |-> attr]


\* The doctypes of the documents: token.Data of each.
DoctypeData ==
  {"html",
   "HTML",
   "html SYSTEM \"about:legacy-compat\"",
   "HTML PUBLIC \"-//W3C//DTD HTML 4.01//EN\"",
   "html public \"-//w3c//dtd html 4.01 transitional//en\"",
   "html PUBLIC \"-//W3C//DTD XHTML 1.0 Strict//EN\"",
   "html PUBLIC \"-//W3C//DTD XHTML 1.1//EN\"",
   "html PUBLIC \"-//W3C//DTD XHTML Basic 1.1//EN\"",
   "HTML PUBLIC \"-//W3C//DTD HTML 3.2 Final//EN\"",
   "html PUBLIC \"-//X//DTD HTML 4.01 with XHTML 1.0//EN\"",
   "note SYSTEM \"public.dtd\""}

DoctypeTokens == {Token("Doctype", data, <<>>) : data \in DoctypeData}

TitleTokens ==
  {Token("StartTag", "title", <<>>), Token("SelfClosingTag", "title", <<>>), Token("EndTag", "title", <<>>),
   Token("Text", " First ", <<>>), Token("Text", "\n Second\t", <<>>), Token("Text", " ", <<>>)}

HeadingTokens ==
  {Token("StartTag", "h1", <<>>), Token("SelfClosingTag", "h2", <<Attribute("id", "sub")>>), Token("EndTag", "h1", <<>>),
   Token("StartTag", "h7", <<>>)}

\* The href values of the anchors.
Hrefs ==
  {"/about", "https://example.com/contact", "https://EXAMPLE.COM/contact",
   "https://other.com/page", "#top", "mailto:test@example.com", "://bad", ""}

AnchorTokens ==
  {Token("StartTag", "a", <<Attribute("href", h)>>) : h \in Hrefs} \cup
  {Token("StartTag", "a", <<Attribute("name", "top")>>), Token("StartTag", "a", <<>>)}

InputTokens ==
  {Token("StartTag", "input", <<Attribute("type", "password")>>),
   Token("SelfClosingTag", "input", <<Attribute("name", "pw"), Attribute("type", "PASSWORD")>>),
   Token("StartTag", "input", <<Attribute("type", "text")>>),
   Token("StartTag", "input", <<Attribute("type", "passwords")>>),
   Token("StartTag", "input", <<>>),
   Token("StartTag", "p", <<Attribute("type", "password")>>)}

\* url.Parse of an href.
urlParse(rawURL) ==
  CASE rawURL = "/about" ->
         [parseErr |-> FALSE, Scheme |-> "", Host |-> "", Path |-> "/about", Fragment |-> ""]
    [] rawURL = "https://example.com/contact" ->
         [parseErr |-> FALSE, Scheme |-> "https", Host |-> "example.com", Path |-> "/contact", Fragment |-> ""]
    [] rawURL = "https://EXAMPLE.COM/contact" ->
         [parseErr |-> FALSE, Scheme |-> "https", Host |-> "EXAMPLE.COM", Path |-> "/contact", Fragment |-> ""]
    [] rawURL = "https://other.com/page" ->
         [parseErr |-> FALSE, Scheme |-> "https", Host |-> "other.com", Path |-> "/page", Fragment |-> ""]
    [] rawURL = "#top" ->
         [parseErr |-> FALSE, Scheme |-> "", Host |-> "", Path |-> "", Fragment |-> "top"]
    [] rawURL = "mailto:test@example.com" ->
         [parseErr |-> FALSE, Scheme |-> "mailto", Host |-> "", Path |-> "", Fragment |-> ""]
    [] rawURL = "://bad" ->
         [parseErr |-> TRUE, Scheme |-> "", Host |-> "", Path |-> "", Fragment |-> ""]
    [] rawURL = "" ->
         [parseErr |-> FALSE, Scheme |-> "", Host |-> "", Path |-> "", Fragment |-> ""]

\* (*url.URL).ResolveReference, for references whose path is empty or absolute.
ResolveReference(u, ref) ==
  IF ref.Scheme # "" THEN [Scheme |-> ref.Scheme, Host |-> ref.Host, Path |-> ref.Path, Fragment |-> ref.Fragment]
  ELSE IF ref.Host # "" THEN [Scheme |-> u.Scheme, Host |-> ref.Host, Path |-> ref.Path, Fragment |-> ref.Fragment]
  ELSE IF ref.Path = ""
       THEN [Scheme |-> u.Scheme, Host |-> u.Host, Path |-> u.Path,
             Fragment |-> IF ref.Fragment = "" THEN u.Fragment ELSE ref.Fragment]
  ELSE [Scheme |-> u.Scheme, Host |-> u.Host, Path |-> ref.Path, Fragment |-> ref.Fragment]

\* (*url.URL).String of the URLs the anchors resolve to.
urlString(u) ==
  CASE u.Scheme = "https" /\ u.Host = "example.com" /\ u.Path = "/about" -> "https://example.com/about"
    [] u.Scheme = "https" /\ u.Host = "example.com" /\ u.Path = "/contact" -> "https://example.com/contact"
    [] u.Scheme = "https" /\ u.Host = "EXAMPLE.COM" /\ u.Path = "/contact" -> "https://EXAMPLE.COM/contact"
    [] u.Scheme = "https" /\ u.Host = "other.com" /\ u.Path = "/page" -> "https://other.com/page"
    [] u.Scheme = "https" /\ u.Host = "example.com" /\ u.Path = "" /\ u.Fragment = "top" -> "https://example.com#top"
    [] u.Scheme = "https" /\ u.Host = "example.com" /\ u.Path = "" /\ u.Fragment = "" -> "https://example.com"

\* The base URL Analyze hands to Parse: url.Parse("https://example.com").
BaseURL == [parseErr |-> FALSE, Scheme |-> "https", Host |-> "example.com", Path |-> "", Fragment |-> ""]

\* ------------------------------------------------- Parse (pure parts)
Link(u, isInternal) == [URL |-> u, IsInternal |-> isInternal]

NoLink == Link("", FALSE)

\* result at line 30: HTMLVersion "Unknown", the six heading counters at 0.
NewParseResult ==
  [HTMLVersion |-> "Unknown", Title |-> "", Headings |-> [h \in HeadingTags |-> 0],
   Links |-> <<>>, HasLoginForm |-> FALSE]

isHeading(tag) == tag \in HeadingTags

\* The value of the first attribute whose key is wanted, "" when there is none.
extractAttr(attr, wanted) ==
  IF \E i \in 1..Len(attr) : attr[i].Key = wanted
  THEN attr[CHOOSE i \in 1..Len(attr) : attr[i].Key = wanted /\ \A k \in 1..(i - 1) : attr[k].Key # wanted].Val
  ELSE ""

classifyLinkExactHost(href, baseURL) ==
  LET parsed == urlParse(href)
      resolved == ResolveReference(baseURL, parsed)
  IN  IF parsed.parseErr THEN [ok |-> FALSE, link |-> NoLink]
      ELSE IF resolved.Scheme \notin {"http", "https"} THEN [ok |-> FALSE, link |-> NoLink]
      ELSE [ok |-> TRUE, link |-> Link(urlString(resolved), resolved.Host = baseURL.Host)]

\* classifyLink returns (Link, bool).
classifyLink(href, baseURL) ==
  LET parsed == urlParse(href)
      resolved == ResolveReference(baseURL, parsed)
  IN  IF parsed.parseErr THEN [ok |-> FALSE, link |-> NoLink]
      ELSE IF resolved.Scheme \notin {"http", "https"} THEN [ok |-> FALSE, link |-> NoLink]
      ELSE [ok |-> TRUE,
            link |-> Link(urlString(resolved),
                          stringsEqualFold(Chars[resolved.Host], Chars[baseURL.Host]))]

detectHTMLVersionHTML4First(token) ==
  LET data == stringsToLower(Chars[token.Data])
  IN  IF ~stringsContains(data, Chars["public"]) THEN "HTML5"
      ELSE IF stringsContains(data, Chars["html 4.01"]) THEN "HTML 4.01"
      ELSE IF stringsContains(data, Chars["xhtml 1.1"]) \/ stringsContains(data, Chars["xhtml basic 1.1"])
           THEN "XHTML 1.1"
      ELSE IF stringsContains(data, Chars["xhtml 1.0"]) THEN "XHTML 1.0"
      ELSE "Unknown"

detectHTMLVersion(token) ==
  LET data == stringsToLower(Chars[token.Data])
  IN  IF ~stringsContains(data, Chars["public"]) THEN "HTML5"
      ELSE IF stringsContains(data, Chars["xhtml 1.1"]) \/ stringsContains(data, Chars["xhtml basic 1.1"])
           THEN "XHTML 1.1"
      ELSE IF stringsContains(data, Chars["xhtml 1.0"]) THEN "XHTML 1.0"
      ELSE IF stringsContains(data, Chars["html 4.01"]) THEN "HTML 4.01"
      ELSE "Unknown"

\* The local state of one call of Parse: result and inTitle.
NewParser == [result |-> NewParseResult, inTitle |-> FALSE]

\* case html.StartTagToken, html.SelfClosingTagToken (lines 51-73).
onStartTag(p, token, baseURL) ==
  LET tag == token.Data
      hasAttr == Len(token.Attr) > 0
  IN  IF tag = "title" THEN [p EXCEPT !.inTitle = TRUE]
      ELSE IF isHeading(tag) THEN [p EXCEPT !.result.Headings[tag] = @ + 1]
      ELSE IF tag = "a" /\ hasAttr
           THEN LET href == extractAttr(token.Attr, "href")
                    c == classifyLink(href, baseURL)
                IN  IF href # "" /\ c.ok
                    THEN [p EXCEPT !.result.Links = Append(@, c.link)]
                    ELSE p
      ELSE IF tag = "input" /\ hasAttr
           THEN IF stringsEqualFold(Chars[extractAttr(token.Attr, "type")], Chars["password"])
                THEN [p EXCEPT !.result.HasLoginForm = TRUE]
                ELSE p
      ELSE p

\* (mutant) every text token is taken as the title.
onTextAnywhere(p, token) ==
  [p EXCEPT !.result.Title = String(stringsTrimSpace(Chars[token.Data])),
            !.inTitle = FALSE]

\* case html.TextToken (lines 75-79).
onText(p, token) ==
  IF p.inTitle
  THEN [p EXCEPT !.result.Title = String(stringsTrimSpace(Chars[token.Data])),
                 !.inTitle = FALSE]
  ELSE p

onEndTagCounting(p, token) ==
  IF token.Data = "title" THEN [p EXCEPT !.inTitle = FALSE]
  ELSE IF isHeading(token.Data) THEN [p EXCEPT !.result.Headings[token.Data] = @ + 1]
  ELSE p

\* case html.EndTagToken (lines 81-85).
onEndTag(p, token) ==
  IF token.Data = "title" THEN [p EXCEPT !.inTitle = FALSE] ELSE p

\* One turn of the loop of Parse on a token other than the ErrorToken.
onToken(p, token, baseURL) ==
  CASE token.Type = "Doctype" -> [p EXCEPT !.result.HTMLVersion = detectHTMLVersion(token)]
    [] token.Type \in {"StartTag", "SelfClosingTag"} -> onStartTag(p, token, baseURL)
    [] token.Type = "Text" -> onText(p, token)
    [] token.Type = "EndTag" -> onEndTag(p, token)
    [] OTHER -> p

\* What the tokenizer can yield: title is a raw-text element, so what follows
\* its start tag is at most one text token and then its end tag; text between
\* two tags is one token.
Tokenizable(tokens) ==
  \A i \in 1..(Len(tokens) - 1) :
    /\ tokens[i].Type = "Text" => tokens[i + 1].Type # "Text"
    /\ (tokens[i].Type \in {"StartTag", "SelfClosingTag"} /\ tokens[i].Data = "title")
         => \/ tokens[i + 1] = Token("EndTag", "title", <<>>)
            \/ /\ tokens[i + 1].Type = "Text"
               /\ i + 2 <= Len(tokens) => tokens[i + 2] = Token("EndTag", "title", <<>>)

\* What z.Err() is at the end of the document Parse reads.
StreamEnds == {"EOF", "unexpected EOF"}

NoParse ==
  [pc |-> "idle", baseURL |-> BaseURL, tokens |-> <<>>, pos |-> 0, p |-> NewParser,
   zErr |-> "EOF", err |-> "nil", ret |-> <<>>, run |-> "none", first |-> <<>>]


\* ------------------------------------------------------------- config
\* The values the environment variables of the process are set to ("": unset).
PortValues == {"", "0", "http"}
ConcurrencyValues == {"", "25", "0", "-1", "1", "100", "101", "abc", "99999999999999999999"}
ShutdownValues == {"", "0"}

\* The bytes of those values and of the defaults.
EnvChars ==
  ("" :> <<>>) @@
  ("0" :> <<"0">>) @@
  ("http" :> <<"h", "t", "t", "p">>) @@
  ("8080" :> <<"8", "0", "8", "0">>) @@
  ("25" :> <<"2", "5">>) @@
  ("-1" :> <<"-", "1">>) @@
  ("1" :> <<"1">>) @@
  ("100" :> <<"1", "0", "0">>) @@
  ("101" :> <<"1", "0", "1">>) @@
  ("abc" :> <<"a", "b", "c">>) @@
  ("99999999999999999999" :> <<"9", "9", "9", "9", "9", "9", "9", "9", "9", "9", "9", "9", "9", "9", "9", "9", "9", "9", "9", "9">>) @@
  ("10" :> <<"1", "0">>)

Digit == ("0" :> 0) @@ ("1" :> 1) @@ ("2" :> 2) @@ ("3" :> 3) @@ ("4" :> 4) @@
         ("5" :> 5) @@ ("6" :> 6) @@ ("7" :> 7) @@ ("8" :> 8) @@ ("9" :> 9)

\* The digits of the largest int (64 bits).
MaxIntDigits == <<"9", "2", "2", "3", "3", "7", "2", "0", "3", "6", "8", "5", "4", "7", "7", "5", "8", "0", "7">>

RECURSIVE DigitsValue(_)
DigitsValue(digits) ==
  IF digits = <<>> THEN 0
  ELSE 10 * DigitsValue(SubSeq(digits, 1, Len(digits) - 1)) + Digit[digits[Len(digits)]]

RECURSIVE DigitsGreater(_, _)
\* a > b, for two numerals of the same length.
DigitsGreater(a, b) ==
  /\ a # <<>>
  /\ \/ Digit[Head(a)] > Digit[Head(b)]
     \/ Head(a) = Head(b) /\ DigitsGreater(Tail(a), Tail(b))

\* strconv.Atoi (config.go 38 and 66): an optional sign and decimal digits; a
\* number that does not fit an int is an error.
Atoi(bytes) ==
  LET signed == bytes # <<>> /\ Head(bytes) \in {"+", "-"}
      digits == IF signed THEN Tail(bytes) ELSE bytes
      fits == \/ Len(digits) < Len(MaxIntDigits)
              \/ Len(digits) = Len(MaxIntDigits) /\ ~DigitsGreater(digits, MaxIntDigits)
  IN  IF digits = <<>> \/ \E i \in 1..Len(digits) : digits[i] \notin DOMAIN Digit
        THEN [ok |-> FALSE, n |-> 0]
      ELSE IF ~fits THEN [ok |-> FALSE, n |-> 0]
      ELSE [ok |-> TRUE,
            n |-> IF signed /\ Head(bytes) = "-" THEN 0 - DigitsValue(digits)
                  ELSE DigitsValue(digits)]

\* getEnv (config.go 54-59): v is os.Getenv(key).
getEnv(v, fallback) == IF v # "" THEN v ELSE fallback

\* getEnvAsInt (config.go 61-71): s is os.Getenv(key).
getEnvAsInt(s, fallback) ==
  IF s = "" THEN fallback
  ELSE IF ~Atoi(EnvChars[s]).ok THEN fallback
  ELSE Atoi(EnvChars[s]).n

\* (mutant) the concurrency is not looked at.
validatePortAndShutdown(c) ==
  LET port == Atoi(EnvChars[c.Port])
  IN  IF ~port.ok \/ port.n < 1 \/ port.n > 65535 THEN "config: invalid PORT number"
      ELSE IF c.ShutdownSeconds <= 0
        THEN "config: SHUTDOWN_TIMEOUT_SECONDS must be greater than 0"
      ELSE "nil"

\* Config.validate (config.go 37-52): the error it returns.
validate(c) ==
  LET port == Atoi(EnvChars[c.Port])
  IN  IF ~port.ok \/ port.n < 1 \/ port.n > 65535 THEN "config: invalid PORT number"
      ELSE IF c.LinkCheckConcurrency < 1 \/ c.LinkCheckConcurrency > 100
        THEN "config: LINK_CHECK_CONCURRENCY must be 1-100"
      ELSE IF c.ShutdownSeconds <= 0
        THEN "config: SHUTDOWN_TIMEOUT_SECONDS must be greater than 0"
      ELSE "nil"

\* The Config of Load (config.go 27-32) for the environment env;
\* ShutdownSeconds is ShutdownTimeout in seconds.
NewConfig(env) ==
  [Port |-> getEnv(env.PORT, "8080"),
   LinkCheckConcurrency |-> getEnvAsInt(env.LINK_CHECK_CONCURRENCY, 25),
   ShutdownSeconds |-> getEnvAsInt(env.SHUTDOWN_TIMEOUT_SECONDS, 10)]

\* Load has not been called: pc is "idle", then "loaded"; cfg and err are what
\* Load returned.
NoConfig ==
  [pc |-> "idle",
   env |-> [PORT |-> "", LINK_CHECK_CONCURRENCY |-> "", SHUTDOWN_TIMEOUT_SECONDS |-> ""],
   cfg |-> [Port |-> "", LinkCheckConcurrency |-> 0, ShutdownSeconds |-> 0],
   err |-> "nil"]


\* ------------------------------------------------------------- the page body
\* The lengths of the bodies a server sends, and the sizes of the buffers the
\* tokenizer reads into.
BodyLengths ==
  {0, 1, maxResponseBody - 1, maxResponseBody, maxResponseBody + 1, 2 * maxResponseBody}

BufSizes == {1, maxResponseBody \div 2, maxResponseBody, maxResponseBody + 1}

\* resp.Body.Read(p) on a body of the given length that ends with the error
\* end, off bytes of it being read already.
BodyRead(length, end, off, p) ==
  IF off < length THEN [n |-> Min(p, length - off), err |-> "nil"]
  ELSE [n |-> 0, err |-> end]

\* (mutant) the reader hands every read through to the body.
LimitedReadUnlimited(N, length, end, off, p) == BodyRead(length, end, off, p)

\* The Read of io.LimitReader(resp.Body, N): at most N bytes, then io.EOF.
LimitedRead(N, length, end, off, p) ==
  IF N <= 0 THEN [n |-> 0, err |-> "EOF"]
  ELSE BodyRead(length, end, off, Min(p, N))

\* The body before Fetch returned it: pc is "idle", "reading" (Fetch returned
\* the limited reader and Parse reads from it), "ended" (a Read returned an
\* error) or "parsed" (Parse returned); length and end describe what the
\* server sends; N is the N of the LimitedReader, off the number of bytes read
\* from resp.Body; reads counts the calls of Read; zErr is z.Err() and ret
\* what Parse returned ("result" or "error").
NoBody ==
  [pc |-> "idle", length |-> 0, end |-> "EOF", N |-> 0, off |-> 0, reads |-> 0,
   zErr |-> "nil", ret |-> "none"]


\* ------------------------------------------------------------- Init
\* Nothing has run yet: Analyze has not returned, the link checker is not called.
Idle ==
  /\ ctx = "nil"
  /\ err = NoError
  /\ parseLinks = <<>>
  /\ linkURLs = <<>>
  /\ internalCount = 0
  /\ externalCount = 0
  /\ analysis = NoAnalysis
  /\ hist = NoHist
  /\ pc = "idle"
  /\ links = <<>>
  /\ sent = 0
  /\ jobs = <<>>
  /\ jobsClosed = FALSE
  /\ results = <<>>
  /\ resultsClosed = FALSE
  /\ workers = [w \in WorkerIds |-> IdleWorker("none")]
  /\ wg = 0
  /\ closer = "none"
  /\ inaccessible = 0
  /\ ret = 0
  /\ taken = <<>>
  /\ verdictsAll = 0
  /\ verdictsBad = 0
  /\ probe = NoProbe

Init ==
  /\ Idle
  /\ config = NoConfig
  /\ body = NoBody
  /\ parse = NoParse
  /\ \/ stage = "Validate" /\ target \in PipelineTargets
     \/ stage = "Direct" /\ target = NoTarget
  /\ concurrency \in 0..MaxConcurrency
  /\ cap = NoCap
  /\ http = NoHTTP
  /\ redirect = NoRedirect
  /\ dial = NoDial

\* ------------------------------------------------------------- context
\* The ambient context is cancelled, or its deadline fires.
Cancel ==
  /\ ctx = "nil"
  /\ ctx' \in {"Canceled", "DeadlineExceeded"}
  /\ UNCHANGED <<config, body, parse, engineVars, concurrency, poolVars, probe, cap, http, redirect, dial>>

\* ------------------------------------------------------------- Engine.Analyze
\* (mutant) the error is noted but Analyze does not return.
FailWithoutReturn(appErr) ==
  /\ err' = appErr
  /\ stage' = stage

\* (mutant) the body is never closed.
DeferredCloseForgotten(h) == h

\* engine.go 62: "defer func() { _ = body.Close() }()", run when Analyze
\* returns after Fetch returned a body.
DeferredClose(h) == [h EXCEPT !.closes = @ + 1]

\* "return nil, &errs.AppError{...}"
Fail(appErr) ==
  /\ err' = appErr
  /\ stage' = "Error"

\* engine.go 32-51
Validate ==
  /\ stage = "Validate"
  /\ IF ValidateKind(target) = "none"
       THEN stage' = "Fetch" /\ err' = err
       ELSE Fail(ValidationError(target))
  /\ UNCHANGED <<config, body, parse, redirect, dial, http, cap, probe, ctx, target, parseLinks, linkURLs, internalCount, externalCount, analysis,
                 hist, concurrency, poolVars>>

\* engine.go 53-69: e.fetcher.Fetch and the status check.
Fetch ==
  /\ stage = "Fetch"
  /\ \/ \E fetchErr \in FetchErrors :
          /\ hist' = [hist EXCEPT !.fetchCalls = @ + 1, !.fetchErr = fetchErr]
          /\ Fail(FetchError(fetchErr))
     \/ \E statusCode \in FetchStatuses :
          /\ IF statusCode >= 400
               THEN /\ Fail(StatusError(statusCode))
                    /\ hist' = DeferredClose([hist EXCEPT !.fetchCalls = @ + 1,
                                                          !.statusCode = statusCode])
               ELSE /\ stage' = "Parse" /\ err' = err
                    /\ hist' = [hist EXCEPT !.fetchCalls = @ + 1, !.statusCode = statusCode]
  /\ UNCHANGED <<config, body, parse, redirect, dial, http, cap, probe, ctx, target, parseLinks, linkURLs, internalCount, externalCount, analysis,
                 concurrency, poolVars>>

\* engine.go 71-78: Parse(body, parsed) reads the token stream to its end.
Parse ==
  /\ stage = "Parse"
  /\ \E zErr \in StreamErrors :
       /\ IF ParseSucceeds(zErr)
            THEN /\ parseLinks' \in SeqsUpTo(LinkUniverse, MaxPageLinks)
                 /\ stage' = "Collect"
                 /\ err' = err
                 /\ hist' = [hist EXCEPT !.parseCalls = @ + 1, !.zErr = zErr]
            ELSE /\ Fail(ParseError(zErr))
                 /\ parseLinks' = parseLinks
                 /\ hist' = DeferredClose([hist EXCEPT !.parseCalls = @ + 1, !.zErr = zErr])
  /\ UNCHANGED <<config, body, parse, redirect, dial, http, cap, probe, ctx, target, linkURLs, internalCount, externalCount, analysis,
                 concurrency, poolVars>>

\* engine.go 80-92: the loop over parseResult.Links and the call of the link checker.
CollectLinks ==
  /\ stage = "Collect"
  /\ linkURLs' = CollectLinkURLs(parseLinks)
  /\ internalCount' = CountInternal(parseLinks)
  /\ externalCount' = CountExternal(parseLinks)
  /\ stage' = "Probe"
  /\ pc = "idle"
  /\ pc' = "call"
  /\ links' = linkURLs'
  /\ hist' = [hist EXCEPT !.probeCalls = @ + 1]
  /\ UNCHANGED <<config, body, parse, redirect, dial, http, cap, probe, ctx, target, err, parseLinks, analysis, concurrency,
                 sent, jobs, jobsClosed, results, resultsClosed, workers, wg, closer,
                 inaccessible, ret, taken, verdictsAll, verdictsBad>>

\* (mutant) a page with inaccessible links is reported as an error.
FinishFailsOnInaccessible ==
  /\ stage = "Probe"
  /\ pc = "returned"
  /\ IF ret > 0
       THEN Fail([Kind |-> "Unreachable", UpstreamStatus |-> 0, Cause |-> "nil"]) /\ analysis' = analysis
       ELSE /\ analysis' = [Internal |-> internalCount, External |-> externalCount, Inaccessible |-> ret]
            /\ stage' = "Done"
            /\ err' = err
  /\ hist' = DeferredClose(hist)
  /\ UNCHANGED <<config, body, parse, redirect, dial, http, cap, probe, ctx, target, parseLinks, linkURLs, internalCount, externalCount,
                 concurrency, poolVars>>

\* engine.go 92-105: the link checker returned; build the PageAnalysis.
Finish ==
  /\ stage = "Probe"
  /\ pc = "returned"
  /\ analysis' = [Internal |-> internalCount, External |-> externalCount, Inaccessible |-> ret]
  /\ stage' = "Done"
  /\ hist' = DeferredClose(hist)
  /\ UNCHANGED <<config, body, parse, redirect, dial, http, cap, probe, ctx, target, err, parseLinks, linkURLs, internalCount, externalCount,
                 concurrency, poolVars>>

\* A caller other than the Engine calls CheckLinksWithWorkerPool with its own list.
DirectCall ==
  /\ stage = "Direct"
  /\ pc = "idle"
  /\ links' \in SeqsUpTo(URLStrings, MaxPageLinks)
  /\ pc' = "call"
  /\ UNCHANGED <<config, body, parse, redirect, dial, http, cap, probe, ctx, engineVars, concurrency,
                 sent, jobs, jobsClosed, results, resultsClosed, workers, wg, closer,
                 inaccessible, ret, taken, verdictsAll, verdictsBad>>


\* ------------------------------------------------- CheckLinksWithWorkerPool
\* Lines 86-105: cap the list, return 0 on an empty one, else make the two
\* channels (capacity limit) and start the workers.
PoolStart ==
  /\ pc = "call"
  /\ links' = CapLinks(links)
  /\ IF LimitOf(links) = 0
       THEN /\ ret' = 0
            /\ pc' = "returned"
            /\ UNCHANGED <<workers, wg>>
       ELSE /\ workers' = [w \in WorkerIds |->
                             IF w <= NumWorkers(LimitOf(links), concurrency)
                               THEN IdleWorker("recv") ELSE IdleWorker("none")]
            /\ wg' = Cardinality({w \in WorkerIds : w <= NumWorkers(LimitOf(links), concurrency)})
            /\ pc' = "enqueue"
            /\ ret' = ret
  /\ UNCHANGED <<config, body, parse, redirect, dial, http, cap, probe, ctx, engineVars, concurrency, sent, jobs, jobsClosed, results, resultsClosed,
                 closer, inaccessible, taken, verdictsAll, verdictsBad>>

\* Lines 107-109: jobs <- link (blocks while the channel is full).
Enqueue ==
  /\ pc = "enqueue"
  /\ sent < Len(links)
  /\ Len(jobs) < Len(links)
  /\ ~jobsClosed
  /\ jobs' = Append(jobs, links[sent + 1])
  /\ sent' = sent + 1
  /\ UNCHANGED <<config, body, parse, redirect, dial, http, cap, probe, ctx, engineVars, concurrency, pc, links, jobsClosed, results, resultsClosed,
                 workers, wg, closer, inaccessible, ret, taken, verdictsAll, verdictsBad>>

\* Lines 110-115: close(jobs) and start the goroutine that waits for the workers.
CloseJobs ==
  /\ pc = "enqueue"
  /\ sent = Len(links)
  /\ jobsClosed' = TRUE
  /\ closer' = "waiting"
  /\ pc' = "collect"
  /\ UNCHANGED <<config, body, parse, redirect, dial, http, cap, probe, ctx, engineVars, concurrency, links, sent, jobs, results, resultsClosed,
                 workers, wg, inaccessible, ret, taken, verdictsAll, verdictsBad>>

\* (mutant) results is closed without waiting for the workers.
CloseResultsNoWait ==
  /\ closer = "waiting"
  /\ resultsClosed' = TRUE
  /\ closer' = "done"
  /\ UNCHANGED <<config, body, parse, redirect, dial, http, cap, probe, ctx, engineVars, concurrency, pc, links, sent, jobs, jobsClosed,
                 results, workers, wg, inaccessible, ret, taken, verdictsAll, verdictsBad>>

\* Lines 113-114: wg.Wait() returns once every worker has exited; close(results).
CloseResults ==
  /\ closer = "waiting"
  /\ wg = 0
  /\ resultsClosed' = TRUE
  /\ closer' = "done"
  /\ UNCHANGED <<config, body, parse, redirect, dial, http, cap, probe, ctx, engineVars, concurrency, pc, links, sent, jobs, jobsClosed, results,
                 workers, wg, inaccessible, ret, taken, verdictsAll, verdictsBad>>

\* (mutant) every result is counted.
TallyAll(count, bad) == count + 1

\* The body of "if bad { inaccessible++ }".
Tally(count, bad) == IF bad THEN count + 1 ELSE count

\* Lines 118-122: one iteration of "for bad := range results".
CollectResult ==
  /\ pc = "collect"
  /\ results # <<>>
  /\ inaccessible' = Tally(inaccessible, Head(results))
  /\ results' = Tail(results)
  /\ UNCHANGED <<config, body, parse, redirect, dial, http, cap, probe, ctx, engineVars, concurrency, pc, links, sent, jobs, jobsClosed, resultsClosed,
                 workers, wg, closer, ret, taken, verdictsAll, verdictsBad>>

\* Lines 118 and 124: the results channel is closed and drained; return the tally.
PoolReturn ==
  /\ pc = "collect"
  /\ results = <<>>
  /\ resultsClosed
  /\ ret' = inaccessible
  /\ pc' = "returned"
  /\ UNCHANGED <<config, body, parse, redirect, dial, http, cap, probe, ctx, engineVars, concurrency, links, sent, jobs, jobsClosed, results,
                 resultsClosed, workers, wg, closer, inaccessible, taken, verdictsAll, verdictsBad>>

\* ------------------------------------------------------------- checkLink
\* checkLink (or getProbe) returns bad.
Verdict(chk, bad) == [chk EXCEPT !.pc = "send", !.bad = bad]

\* (mutant) a failed request makes the link inaccessible, whatever the context.
AfterErrorIgnoresContext(chk, ctxErr) ==
  Verdict([chk EXCEPT !.failed = TRUE, !.ctxErr = ctxErr], TRUE)

\* lc.client.Do returned an error: lines 53-55 and 74-76.
AfterError(chk, ctxErr) ==
  Verdict([chk EXCEPT !.failed = TRUE, !.ctxErr = ctxErr], JudgeFailure(ctxErr))

\* lc.client.Do(req) is called and the request of kind p ("head", "get") goes
\* on the wire.  A request made on a context that is already cancelled fails
\* at once (lines 52-55 and 73-76).
Do(chk, p, ctxErr) ==
  IF ctxErr # "nil"
    THEN AfterError([chk EXCEPT !.dos = @ + 1, !.reqs = Append(@, Request(p))], ctxErr)
    ELSE [chk EXCEPT !.dos = @ + 1, !.reqs = Append(@, Request(p)), !.pc = p]

\* getProbe, lines 66-73, up to the moment its request is on the wire.
StartGet(chk, ctxErr) ==
  IF NewRequestFails(chk.link) THEN Verdict(chk, TRUE)
  ELSE Do(chk, "get", ctxErr)

AfterHeadProbesEveryError(chk, code, ctxErr) ==
  IF JudgeStatus(code)
    THEN StartGet([chk EXCEPT !.head = code], ctxErr)
    ELSE Verdict([chk EXCEPT !.head = code], JudgeStatus(code))

\* checkLink, lines 56-62: the HEAD was answered with a status code.
AfterHead(chk, code, ctxErr) ==
  IF WantsGetProbe(code)
    THEN StartGet([chk EXCEPT !.head = code], ctxErr)
    ELSE Verdict([chk EXCEPT !.head = code], JudgeStatus(code))

\* getProbe, lines 77-79: the GET was answered with a status code.
AfterGet(chk, code) == Verdict([chk EXCEPT !.get = code], JudgeStatus(code))

\* checkLink, lines 47-52, up to the moment the HEAD is on the wire.
StartHead(link, ctxErr) ==
  IF NewRequestFails(link) THEN Verdict(NewCheck(link, "head"), TRUE)
  ELSE Do(NewCheck(link, "head"), "head", ctxErr)

\* ------------------------------------------------------------- workers
\* (mutant) receiving leaves the link on the channel.
WorkerRecvKeepsJob(w) ==
  /\ workers[w].pc = "recv"
  /\ \A v \in WorkerIds : workers[v].pc = "recv" => w <= v
  /\ jobs # <<>>
  /\ taken' = Append(taken, Head(jobs))
  /\ workers' = [workers EXCEPT ![w] = WorkerOf(StartHead(Head(jobs), ctx))]
  /\ UNCHANGED <<config, body, parse, redirect, dial, http, cap, probe, ctx, engineVars, concurrency, pc, links, sent, jobs, jobsClosed, results,
                 resultsClosed, wg, closer, inaccessible, ret, verdictsAll, verdictsBad>>

\* Line 101: a worker receives the next link and calls checkLink.  The workers
\* waiting on jobs are interchangeable: the first of them is the one that
\* receives.
WorkerRecv(w) ==
  /\ workers[w].pc = "recv"
  /\ \A v \in WorkerIds : workers[v].pc = "recv" => w <= v
  /\ jobs # <<>>
  /\ jobs' = Tail(jobs)
  /\ taken' = Append(taken, Head(jobs))
  /\ workers' = [workers EXCEPT ![w] = WorkerOf(StartHead(Head(jobs), ctx))]
  /\ UNCHANGED <<config, body, parse, redirect, dial, http, cap, probe, ctx, engineVars, concurrency, pc, links, sent, jobsClosed, results,
                 resultsClosed, wg, closer, inaccessible, ret, verdictsAll, verdictsBad>>

\* Line 52: the HEAD request ends, with an error or with a response.
HeadDone(w) ==
  /\ workers[w].pc = "head"
  /\ \/ workers' = [workers EXCEPT ![w] =
                      WorkerOf(AfterError(NewCheck(workers[w].link, "head"), ctx))]
     \/ \E code \in Statuses :
          workers' = [workers EXCEPT ![w] =
                        WorkerOf(AfterHead(NewCheck(workers[w].link, "head"), code, ctx))]
  /\ UNCHANGED <<config, body, parse, redirect, dial, http, cap, probe, ctx, engineVars, concurrency, pc, links, sent, jobs, jobsClosed, results,
                 resultsClosed, wg, closer, inaccessible, ret, taken, verdictsAll, verdictsBad>>

\* Line 73: the GET request ends, with an error or with a response.
GetDone(w) ==
  /\ workers[w].pc = "get"
  /\ \/ workers' = [workers EXCEPT ![w] =
                      WorkerOf(AfterError(NewCheck(workers[w].link, "get"), ctx))]
     \/ \E code \in Statuses :
          workers' = [workers EXCEPT ![w] =
                        WorkerOf(AfterGet(NewCheck(workers[w].link, "get"), code))]
  /\ UNCHANGED <<config, body, parse, redirect, dial, http, cap, probe, ctx, engineVars, concurrency, pc, links, sent, jobs, jobsClosed, results,
                 resultsClosed, wg, closer, inaccessible, ret, taken, verdictsAll, verdictsBad>>

WorkerSendTallies(w) ==
  /\ workers[w].pc = "send"
  /\ Len(results) < Len(links)
  /\ ~resultsClosed
  /\ results' = Append(results, workers[w].bad)
  /\ inaccessible' = inaccessible + (IF workers[w].bad THEN 1 ELSE 0)
  /\ verdictsAll' = verdictsAll + 1
  /\ verdictsBad' = verdictsBad + (IF workers[w].bad THEN 1 ELSE 0)
  /\ workers' = [workers EXCEPT ![w] = IdleWorker("recv")]
  /\ UNCHANGED <<config, body, parse, redirect, dial, http, cap, probe, ctx, engineVars, concurrency, pc, links, sent, jobs, jobsClosed,
                 resultsClosed, wg, closer, ret, taken>>

\* Line 102: results <- verdict (blocks while the channel is full).
WorkerSend(w) ==
  /\ workers[w].pc = "send"
  /\ Len(results) < Len(links)
  /\ ~resultsClosed
  /\ results' = Append(results, workers[w].bad)
  /\ verdictsAll' = verdictsAll + 1
  /\ verdictsBad' = verdictsBad + (IF workers[w].bad THEN 1 ELSE 0)
  /\ workers' = [workers EXCEPT ![w] = IdleWorker("recv")]
  /\ UNCHANGED <<config, body, parse, redirect, dial, http, cap, probe, ctx, engineVars, concurrency, pc, links, sent, jobs, jobsClosed,
                 resultsClosed, wg, closer, inaccessible, ret, taken>>

\* (mutant) a worker that is done does not tell the WaitGroup.
WorkerExitNotDone(w) ==
  /\ workers[w].pc = "recv"
  /\ jobs = <<>>
  /\ jobsClosed
  /\ workers' = [workers EXCEPT ![w] = IdleWorker("exit")]
  /\ UNCHANGED <<config, body, parse, redirect, dial, http, cap, probe, ctx, engineVars, concurrency, pc, links, sent, jobs, jobsClosed, results,
                 resultsClosed, wg, closer, inaccessible, ret, taken, verdictsAll, verdictsBad>>

\* Line 101: jobs is closed and empty, the range loop ends and the worker is done.
WorkerExit(w) ==
  /\ workers[w].pc = "recv"
  /\ jobs = <<>>
  /\ jobsClosed
  /\ workers' = [workers EXCEPT ![w] = IdleWorker("exit")]
  /\ wg' = wg - 1
  /\ UNCHANGED <<config, body, parse, redirect, dial, http, cap, probe, ctx, engineVars, concurrency, pc, links, sent, jobs, jobsClosed, results,
                 resultsClosed, closer, inaccessible, ret, taken, verdictsAll, verdictsBad>>

\* ------------------------------------------- checkLink and getProbe on their own
\* A caller calls lc.checkLink(ctx, link) itself.
CallCheckLink ==
  /\ probe.entry = "none"
  /\ \E link \in ProbeLinks :
       probe' = [entry |-> "checkLink", startCtx |-> ctx, chk |-> StartHead(link, ctx)]
  /\ UNCHANGED <<config, body, parse, redirect, dial, http, cap, ctx, engineVars, concurrency, poolVars>>

\* A caller calls lc.getProbe(ctx, link) itself.
CallGetProbe ==
  /\ probe.entry = "none"
  /\ \E link \in ProbeLinks :
       probe' = [entry |-> "getProbe", startCtx |-> ctx,
                 chk |-> StartGet(NewCheck(link, "get"), ctx)]
  /\ UNCHANGED <<config, body, parse, redirect, dial, http, cap, ctx, engineVars, concurrency, poolVars>>

\* Line 52: the HEAD request of that call ends.
ProbeHeadDone ==
  /\ probe.chk.pc = "head"
  /\ \/ probe' = [probe EXCEPT !.chk = AfterError(probe.chk, ctx)]
     \/ \E code \in Statuses : probe' = [probe EXCEPT !.chk = AfterHead(probe.chk, code, ctx)]
  /\ UNCHANGED <<config, body, parse, redirect, dial, http, cap, ctx, engineVars, concurrency, poolVars>>

\* Line 73: the GET request of that call ends.
ProbeGetDone ==
  /\ probe.chk.pc = "get"
  /\ \/ probe' = [probe EXCEPT !.chk = AfterError(probe.chk, ctx)]
     \/ \E code \in Statuses : probe' = [probe EXCEPT !.chk = AfterGet(probe.chk, code)]
  /\ UNCHANGED <<config, body, parse, redirect, dial, http, cap, ctx, engineVars, concurrency, poolVars>>

\* The caller has the verdict; it may call again.
ProbeReturn ==
  /\ probe.chk.pc = "send"
  /\ probe' = NoProbe
  /\ UNCHANGED <<config, body, parse, redirect, dial, http, cap, ctx, engineVars, concurrency, poolVars>>

\* ------------------------------- CheckLinksWithWorkerPool on a long list
\* The same function, lines 85-125, on lists long enough to exceed maxLinks.
\* The links are known by their position in the list; the link at an odd
\* position is dead (its check returns true), the others are alive.  A worker's
\* receive, check and send are taken as one step.
DeadAt(i) == i % 2 = 1

\* Lines 86-105
CapStart ==
  /\ cap.pc = "call"
  /\ IF LimitOfLen(cap.n) = 0
       THEN cap' = [cap EXCEPT !.pc = "returned", !.ret = 0]
       ELSE cap' = [cap EXCEPT !.pc = "enqueue", !.limit = LimitOfLen(cap.n),
                               !.running = NumWorkers(LimitOfLen(cap.n), concurrency)]
  /\ UNCHANGED <<config, body, parse, redirect, dial, http, probe, ctx, engineVars, concurrency, poolVars>>

\* Lines 107-109: jobs <- link, for the links of links[:limit].
CapEnqueue ==
  /\ cap.pc = "enqueue"
  /\ cap.sent < cap.limit
  /\ cap.sent - cap.taken < cap.limit
  /\ cap' = [cap EXCEPT !.sent = @ + 1]
  /\ UNCHANGED <<config, body, parse, redirect, dial, http, probe, ctx, engineVars, concurrency, poolVars>>

\* Lines 110-115
CapCloseJobs ==
  /\ cap.pc = "enqueue"
  /\ cap.sent = cap.limit
  /\ cap' = [cap EXCEPT !.pc = "collect", !.jobsClosed = TRUE, !.closer = "waiting"]
  /\ UNCHANGED <<config, body, parse, redirect, dial, http, probe, ctx, engineVars, concurrency, poolVars>>

\* Lines 101-102: a worker receives the next link, checks it and sends the verdict.
CapCheck ==
  /\ cap.running > 0
  /\ cap.taken < cap.sent
  /\ cap.taken - cap.read < cap.limit
  /\ cap' = [cap EXCEPT !.taken = @ + 1]
  /\ UNCHANGED <<config, body, parse, redirect, dial, http, probe, ctx, engineVars, concurrency, poolVars>>

\* Line 101: jobs is closed and empty; a worker is done.
CapWorkerExit ==
  /\ cap.running > 0
  /\ cap.jobsClosed
  /\ cap.taken = cap.sent
  /\ cap' = [cap EXCEPT !.running = @ - 1]
  /\ UNCHANGED <<config, body, parse, redirect, dial, http, probe, ctx, engineVars, concurrency, poolVars>>

\* Lines 113-114
CapCloseResults ==
  /\ cap.closer = "waiting"
  /\ cap.running = 0
  /\ cap' = [cap EXCEPT !.closer = "done", !.resultsClosed = TRUE]
  /\ UNCHANGED <<config, body, parse, redirect, dial, http, probe, ctx, engineVars, concurrency, poolVars>>

\* Lines 118-122: the verdict of the link at position read + 1 is received.
CapCollect ==
  /\ cap.pc = "collect"
  /\ cap.read < cap.taken
  /\ cap' = [cap EXCEPT !.read = @ + 1,
                        !.inaccessible = Tally(@, DeadAt(cap.read + 1))]
  /\ UNCHANGED <<config, body, parse, redirect, dial, http, probe, ctx, engineVars, concurrency, poolVars>>

\* Lines 118 and 124
CapReturn ==
  /\ cap.pc = "collect"
  /\ cap.read = cap.taken
  /\ cap.resultsClosed
  /\ cap' = [cap EXCEPT !.pc = "returned", !.ret = cap.inaccessible]
  /\ UNCHANGED <<config, body, parse, redirect, dial, http, probe, ctx, engineVars, concurrency, poolVars>>

\* ------------------------------------------------- analyzer: handleAnalyze
Respond(r) == http' = [http EXCEPT !.pc = "responded", !.responses = @ + 1, !.resp = r]

\* (mutant) the decoded request is not validated.
HandleDecodeOnly ==
  /\ http.pc = "decode"
  /\ IF http.reqBody = "not JSON"
       THEN Respond(renderError(400, "Invalid request body. Please send a JSON object with a \"url\" field."))
       ELSE http' = [http EXCEPT !.pc = "provider", !.serviceCalls = @ + 1]
  /\ UNCHANGED <<config, body, parse, redirect, dial, cap, probe, ctx, engineVars, concurrency, poolVars>>

\* handleAnalyze 49-65: decode and validate the body, then call the service.
HandleDecode ==
  /\ http.pc = "decode"
  /\ IF http.reqBody = "not JSON"
       THEN Respond(renderError(400, "Invalid request body. Please send a JSON object with a \"url\" field."))
       ELSE IF http.reqBody = "{\"url\": \"\"}"
         THEN Respond(renderError(400, "the \"url\" field is required"))
         ELSE http' = [http EXCEPT !.pc = "provider", !.serviceCalls = @ + 1]
  /\ UNCHANGED <<config, body, parse, redirect, dial, cap, probe, ctx, engineVars, concurrency, poolVars>>

\* service.go 28: s.provider.Analyze returns a result or an error.
ProviderReturn ==
  /\ http.pc = "provider"
  /\ \E e \in ProviderErrors \cup {NilError} :
       http' = [http EXCEPT !.pc = "service", !.provErr = e]
  /\ UNCHANGED <<config, body, parse, redirect, dial, cap, probe, ctx, engineVars, concurrency, poolVars>>

\* (mutant) the Service looks at the deadline whether or not the provider failed.
ServiceReturnByDeadline ==
  /\ http.pc = "service"
  /\ IF http.provErr # NilError \/ ctx = "DeadlineExceeded"
       THEN http' = [http EXCEPT !.pc = "handler", !.ctxSeen = ctx,
                                 !.svcErr = Reclassify(http.provErr, ctx)]
       ELSE http' = [http EXCEPT !.pc = "handler"]
  /\ UNCHANGED <<config, body, parse, redirect, dial, cap, probe, ctx, engineVars, concurrency, poolVars>>

\* service.go 29-55: the rest of Service.Analyze.
ServiceReturn ==
  /\ http.pc = "service"
  /\ IF http.provErr # NilError
       THEN http' = [http EXCEPT !.pc = "handler", !.ctxSeen = ctx,
                                 !.svcErr = Reclassify(http.provErr, ctx)]
       ELSE http' = [http EXCEPT !.pc = "handler"]
  /\ UNCHANGED <<config, body, parse, redirect, dial, cap, probe, ctx, engineVars, concurrency, poolVars>>

\* handleAnalyze 66-71: answer with the error, or with the result the service
\* returned, one of answers.
HandleReturnWith(answers) ==
  /\ http.pc = "handler"
  /\ IF http.svcErr # NilError
       THEN Respond(handleServiceError(http.svcErr))
       ELSE \E a \in answers : Respond(renderJSON(200, a))
  /\ UNCHANGED <<config, body, parse, redirect, dial, cap, probe, ctx, engineVars, concurrency, poolVars>>

\* The service stands for any provider: the result is any analysis.
HandleReturn == HandleReturnWith(Analyses)

\* The provider is the Engine: s.provider.Analyze (service.go 28) returns what
\* Engine.Analyze returned.
EngineReturn ==
  /\ http.pc = "provider"
  /\ stage \in {"Done", "Error"}
  /\ http' = [http EXCEPT !.pc = "service",
                           !.provErr = IF stage = "Error" THEN AnalyzeError(err, target)
                                       ELSE NilError]
  /\ UNCHANGED <<config, body, parse, redirect, dial, cap, probe, ctx, engineVars, concurrency, poolVars>>

\* handleAnalyze 66-71 behind that service: the result is the Engine's.
HandleEngineReturn == HandleReturnWith({analysis})

\* ------------------------------------------------- HTTPClient.Fetch: client.Do
\* The server answers the request on the wire with a response that is no
\* redirect: client.Do returns it.
ServerAnswers ==
  /\ redirect.pc = "request"
  /\ redirect' = [redirect EXCEPT !.pc = "done"]
  /\ UNCHANGED <<config, body, parse, dial, http, cap, probe, ctx, engineVars, concurrency, poolVars>>

\* The server answers with a redirect to a URL of that scheme: the client asks
\* CheckRedirect (safeRedirectPolicy) with the requests made so far, and makes
\* the next request or returns the policy's error.
ServerRedirects(scheme) ==
  /\ redirect.pc = "request"
  /\ Len(redirect.via) < MaxChain
  /\ IF safeRedirectPolicy(scheme, redirect.via) = "nil"
       THEN redirect' = [redirect EXCEPT !.via = Append(@, scheme)]
       ELSE redirect' = [redirect EXCEPT !.pc = "done", !.refused = scheme,
                                         !.err = safeRedirectPolicy(scheme, redirect.via)]
  /\ UNCHANGED <<config, body, parse, dial, http, cap, probe, ctx, engineVars, concurrency, poolVars>>

\* ------------------------------------------------- safe dialer: Control
\* blockPrivateAddresses(network, address, conn)
Dial ==
  /\ dial.pc = "call"
  /\ dial' = [dial EXCEPT !.pc = "done", !.blocked = ~dial.parsed \/ isBlockedIP(dial.addr)]
  /\ UNCHANGED <<config, body, parse, redirect, http, cap, probe, ctx, engineVars, concurrency, poolVars>>

\* ------------------------------------------------------------- Parse
ParseCallKeepsLocals ==
  /\ UNCHANGED <<config, body, redirect, dial, http, cap, probe, ctx, engineVars, concurrency, poolVars>>
  /\ parse.pc \in {"idle", "done"}
  /\ parse.run \in {"none", "first"}
  /\ parse' = [parse EXCEPT !.pc = "loop",
                            !.run = IF parse.run = "none" THEN "first" ELSE "second",
                            !.pos = 1,
                            !.err = "nil",
                            !.ret = <<>>,
                            !.first = IF parse.run = "none" THEN <<>>
                                      ELSE <<[ret |-> parse.ret, err |-> parse.err]>>]

\* Parse is called on the document: result and inTitle are fresh locals.
ParseCall ==
  /\ UNCHANGED <<config, body, redirect, dial, http, cap, probe, ctx, engineVars, concurrency, poolVars>>
  /\ parse.pc \in {"idle", "done"}
  /\ parse.run \in {"none", "first"}
  /\ parse' = [parse EXCEPT !.pc = "loop",
                            !.run = IF parse.run = "none" THEN "first" ELSE "second",
                            !.pos = 1,
                            !.p = NewParser,
                            !.err = "nil",
                            !.ret = <<>>,
                            !.first = IF parse.run = "none" THEN <<>>
                                      ELSE <<[ret |-> parse.ret, err |-> parse.err]>>]

\* One turn of the loop: z.Next() yields the next token of the document.
ParseNext ==
  /\ UNCHANGED <<config, body, redirect, dial, http, cap, probe, ctx, engineVars, concurrency, poolVars>>
  /\ parse.pc = "loop"
  /\ parse.pos <= Len(parse.tokens)
  /\ parse' = [parse EXCEPT !.p = onToken(parse.p, parse.tokens[parse.pos], parse.baseURL),
                            !.pos = @ + 1]

\* z.Next() yields the ErrorToken: Parse returns.
ParseReturn ==
  /\ UNCHANGED <<config, body, redirect, dial, http, cap, probe, ctx, engineVars, concurrency, poolVars>>
  /\ parse.pc = "loop"
  /\ parse.pos > Len(parse.tokens)
  /\ \E zErr \in StreamEnds :
       /\ parse.run = "second" => zErr = parse.zErr
       /\ parse' = [parse EXCEPT !.pc = "done",
                                 !.zErr = zErr,
                                 !.ret = IF ParseSucceeds(zErr) THEN <<parse.p.result>> ELSE <<>>,
                                 !.err = IF ParseSucceeds(zErr) THEN "nil" ELSE zErr]

\* ------------------------------------------------------------- config.Load
\* config.go 26-35.
Load ==
  /\ config.pc = "idle"
  /\ config' = [config EXCEPT !.pc = "loaded",
                               !.cfg = NewConfig(config.env),
                               !.err = validate(NewConfig(config.env))]
  /\ UNCHANGED <<body, parse, redirect, dial, http, cap, probe, ctx, engineVars, concurrency, poolVars>>

\* ------------------------------------------------------------- reading the body
\* Fetch, lines 83-89: the body is wrapped in a reader limited to
\* maxResponseBody bytes and returned.
FetchReturnsBody ==
  /\ body.pc = "idle"
  /\ body' = [body EXCEPT !.pc = "reading", !.N = maxResponseBody]
  /\ UNCHANGED <<config, parse, redirect, dial, http, cap, probe, ctx, engineVars, concurrency, poolVars>>

\* The tokenizer of Parse fills its buffer: one Read of the limited reader.
TokenizerRead ==
  /\ body.pc = "reading"
  /\ body.reads < MaxReads
  /\ \E p \in BufSizes :
       LET r == LimitedRead(body.N, body.length, body.end, body.off, p)
       IN  body' = [body EXCEPT !.reads = @ + 1,
                                !.N = @ - r.n,
                                !.off = @ + r.n,
                                !.zErr = r.err,
                                !.pc = IF r.err = "nil" THEN "reading" ELSE "ended"]
  /\ UNCHANGED <<config, parse, redirect, dial, http, cap, probe, ctx, engineVars, concurrency, poolVars>>

\* Parse, lines 41-45: the tokenizer yields the ErrorToken and Parse returns.
ParseEnds ==
  /\ body.pc = "ended"
  /\ body' = [body EXCEPT !.pc = "parsed",
                           !.ret = IF ParseSucceeds(body.zErr) THEN "result" ELSE "error"]
  /\ UNCHANGED <<config, parse, redirect, dial, http, cap, probe, ctx, engineVars, concurrency, poolVars>>

\* ------------------------------------------------------------- specification
Next ==
  \/ Cancel
  \/ Validate
  \/ Fetch
  \/ Parse
  \/ CollectLinks
  \/ Finish
  \/ DirectCall
  \/ PoolStart
  \/ Enqueue
  \/ CloseJobs
  \/ CloseResults
  \/ CollectResult
  \/ PoolReturn
  \/ \E w \in WorkerIds : WorkerRecv(w)
  \/ \E w \in WorkerIds : HeadDone(w)
  \/ \E w \in WorkerIds : GetDone(w)
  \/ \E w \in WorkerIds : WorkerSend(w)
  \/ \E w \in WorkerIds : WorkerExit(w)

Spec == Init /\ [][Next]_vars

\* Engine.Analyze alone: every run is a call of Analyze.
InitAnalyze == Init /\ stage = "Validate"

NextAnalyze ==
  \/ Cancel
  \/ Validate
  \/ Fetch
  \/ Parse
  \/ CollectLinks
  \/ Finish
  \/ PoolStart
  \/ Enqueue
  \/ CloseJobs
  \/ CloseResults
  \/ CollectResult
  \/ PoolReturn
  \/ \E w \in WorkerIds : WorkerRecv(w)
  \/ \E w \in WorkerIds : HeadDone(w)
  \/ \E w \in WorkerIds : GetDone(w)
  \/ \E w \in WorkerIds : WorkerSend(w)
  \/ \E w \in WorkerIds : WorkerExit(w)

\* Every step but the cancellation of the context.
Progress == NextAnalyze /\ ctx' = ctx

\* A goroutine that can run is scheduled, and a request on the wire is
\* answered or ends by the client's timeout: some step that is possible is
\* eventually taken.
FairSpec == InitAnalyze /\ [][NextAnalyze]_vars /\ WF_vars(Progress)


\* Analyze up to the end of Parse, on every target.
InitFront ==
  /\ Idle
  /\ config = NoConfig
  /\ body = NoBody
  /\ parse = NoParse
  /\ stage = "Validate"
  /\ target \in Targets
  /\ concurrency = MaxConcurrency
  /\ cap = NoCap
  /\ http = NoHTTP
  /\ redirect = NoRedirect
  /\ dial = NoDial

NextFront ==
  \/ Cancel
  \/ Validate
  \/ Fetch
  \/ Parse

SpecFront == InitFront /\ [][NextFront]_vars


\* checkLink and getProbe called on their own, under a context that can be
\* cancelled at any moment.
InitCheck == Init /\ stage = "Direct" /\ concurrency = MaxConcurrency

NextCheck ==
  \/ Cancel
  \/ CallCheckLink
  \/ CallGetProbe
  \/ ProbeHeadDone
  \/ ProbeGetDone
  \/ ProbeReturn

SpecCheck == InitCheck /\ [][NextCheck]_vars


\* CheckLinksWithWorkerPool called with a list of about maxLinks links.
CapLengths == {0, 1, 2, maxLinks + 100}

InitCap ==
  /\ Idle
  /\ config = NoConfig
  /\ body = NoBody
  /\ parse = NoParse
  /\ stage = "Direct"
  /\ target = NoTarget
  /\ concurrency = MaxConcurrency
  /\ \E n \in CapLengths : cap = [NoCap EXCEPT !.pc = "call", !.n = n]
  /\ http = NoHTTP
  /\ redirect = NoRedirect
  /\ dial = NoDial

NextCap ==
  \/ CapStart
  \/ CapEnqueue
  \/ CapCloseJobs
  \/ CapCheck
  \/ CapWorkerExit
  \/ CapCloseResults
  \/ CapCollect
  \/ CapReturn

SpecCap == InitCap /\ [][NextCap]_vars


\* One POST /analyze request served by the Transport, the Service behind it
\* and a PageInsightProvider that returns whatever a provider can return; the
\* request context can be cancelled, or its deadline can fire, at any moment.
InitHTTP ==
  /\ Idle
  /\ config = NoConfig
  /\ body = NoBody
  /\ parse = NoParse
  /\ stage = "Direct"
  /\ target = NoTarget
  /\ concurrency = MaxConcurrency
  /\ cap = NoCap
  /\ \E b \in Bodies : http = [NoHTTP EXCEPT !.pc = "decode", !.reqBody = b]
  /\ redirect = NoRedirect
  /\ dial = NoDial

NextHTTP ==
  \/ Cancel
  \/ HandleDecode
  \/ ProviderReturn
  \/ ServiceReturn
  \/ HandleReturn

SpecHTTP == InitHTTP /\ [][NextHTTP]_vars


\* One client.Do of HTTPClient.Fetch against servers that redirect at will.
InitRedirect ==
  /\ Idle
  /\ config = NoConfig
  /\ body = NoBody
  /\ parse = NoParse
  /\ stage = "Direct"
  /\ target = NoTarget
  /\ concurrency = MaxConcurrency
  /\ cap = NoCap
  /\ http = NoHTTP
  /\ \E scheme \in FetchSchemes : redirect = [NoRedirect EXCEPT !.pc = "request", !.via = <<scheme>>]
  /\ dial = NoDial

NextRedirect ==
  \/ ServerAnswers
  \/ \E scheme \in RedirectSchemes : ServerRedirects(scheme)

SpecRedirect == InitRedirect /\ [][NextRedirect]_vars


\* One connection dialled through safeDialer.
InitDial ==
  /\ Idle
  /\ config = NoConfig
  /\ body = NoBody
  /\ parse = NoParse
  /\ stage = "Direct"
  /\ target = NoTarget
  /\ concurrency = MaxConcurrency
  /\ cap = NoCap
  /\ http = NoHTTP
  /\ redirect = NoRedirect
  /\ \/ \E a \in DialAddrs : dial = [NoDial EXCEPT !.pc = "call", !.addr = a]
     \/ dial = [NoDial EXCEPT !.pc = "call", !.parsed = FALSE]

NextDial == Dial

SpecDial == InitDial /\ [][NextDial]_vars

\* Parse on its own, called twice on the same document.
Documents ==
  {d \in SeqsUpTo(TitleTokens, MaxTokens) : Tokenizable(d)} \cup
  SeqsUpTo(HeadingTokens, MaxTokens) \cup
  SeqsUpTo(InputTokens, MaxTags) \cup
  SeqsUpTo(AnchorTokens, MaxTags) \cup
  SeqsUpTo(DoctypeTokens \cup {Token("Comment", "", <<>>)}, MaxDoctypes)

InitParse ==
  /\ Idle
  /\ config = NoConfig
  /\ body = NoBody
  /\ stage = "Direct"
  /\ target = NoTarget
  /\ concurrency = MaxConcurrency
  /\ cap = NoCap
  /\ http = NoHTTP
  /\ redirect = NoRedirect
  /\ dial = NoDial
  /\ \E d \in Documents : parse = [NoParse EXCEPT !.tokens = d]

NextParse ==
  \/ ParseCall
  \/ ParseNext
  \/ ParseReturn

SpecParse == InitParse /\ [][NextParse]_vars

\* One valid POST /analyze request served by the Transport and the Service,
\* the provider being the Engine with its link checker.
InitService ==
  /\ Idle
  /\ config = NoConfig
  /\ body = NoBody
  /\ parse = NoParse
  /\ stage = "Validate"
  /\ target \in PipelineTargets
  /\ concurrency = MaxConcurrency
  /\ cap = NoCap
  /\ http = [NoHTTP EXCEPT !.pc = "provider", !.reqBody = "{\"url\": \"https://example.com\"}",
                           !.serviceCalls = 1]
  /\ redirect = NoRedirect
  /\ dial = NoDial

NextService ==
  \/ NextAnalyze
  \/ EngineReturn
  \/ ServiceReturn
  \/ HandleEngineReturn

SpecService == InitService /\ [][NextService]_vars

\* The process loads its configuration; and a LinkChecker built with a
\* concurrency of -1, 0 or 1 is called with a list of links.
InitConfig ==
  /\ Idle
  /\ body = NoBody
  /\ parse = NoParse
  /\ stage = "Direct"
  /\ target = NoTarget
  /\ concurrency \in {0 - 1, 0, 1}
  /\ cap = NoCap
  /\ http = NoHTTP
  /\ redirect = NoRedirect
  /\ dial = NoDial
  /\ \E port \in PortValues, n \in ConcurrencyValues, secs \in ShutdownValues :
       config = [NoConfig EXCEPT !.env = [PORT |-> port, LINK_CHECK_CONCURRENCY |-> n,
                                          SHUTDOWN_TIMEOUT_SECONDS |-> secs]]

NextConfig ==
  \/ Load
  \/ DirectCall
  \/ PoolStart
  \/ Enqueue
  \/ CloseJobs
  \/ CloseResults
  \/ CollectResult
  \/ PoolReturn
  \/ \E w \in WorkerIds : WorkerRecv(w)
  \/ \E w \in WorkerIds : HeadDone(w)
  \/ \E w \in WorkerIds : GetDone(w)
  \/ \E w \in WorkerIds : WorkerSend(w)
  \/ \E w \in WorkerIds : WorkerExit(w)

SpecConfig == InitConfig /\ [][NextConfig]_vars

\* Fetch returns a body and Parse reads it to its end.
InitBody ==
  /\ Idle
  /\ config = NoConfig
  /\ parse = NoParse
  /\ stage = "Direct"
  /\ target = NoTarget
  /\ concurrency = MaxConcurrency
  /\ cap = NoCap
  /\ http = NoHTTP
  /\ redirect = NoRedirect
  /\ dial = NoDial
  /\ \E n \in BodyLengths, e \in StreamEnds : body = [NoBody EXCEPT !.length = n, !.end = e]

NextBody ==
  \/ FetchReturnsBody
  \/ TokenizerRead
  \/ ParseEnds

SpecBody == InitBody /\ [][NextBody]_vars




\* ------------------------------------------------------------- properties
NoDuplicates(s) == \A i, j \in 1..Len(s) : s[i] = s[j] => i = j

\* s without the later occurrences of its elements.
RECURSIVE FirstOccurrences(_)
FirstOccurrences(s) ==
  IF s = <<>> THEN <<>>
  ELSE LET init == FirstOccurrences(SubSeq(s, 1, Len(s) - 1))
       IN IF s[Len(s)] \in Range(init) THEN init ELSE Append(init, s[Len(s)])

\* The link set of the parsed page: its distinct URL strings.
LinkSet == {parseLinks[i].URL : i \in 1..Len(parseLinks)}

Chk == probe.chk

\* The status code a call of checkLink ended with: that of the GET if one was
\* answered, else that of the HEAD.
Resolved == IF Chk.get # 0 THEN Chk.get ELSE Chk.head

\* C1: the list Analyze hands to the link checker holds no URL string twice and
\* is the page's URLs in first-occurrence order, while the internal and
\* external counts include the duplicates.
C1_ProberInputDeduplicated ==
  stage \in {"Probe", "Done"} =>
    /\ NoDuplicates(linkURLs)
    /\ linkURLs = FirstOccurrences(CollectLinkURLs(parseLinks))
    /\ internalCount + externalCount = Len(parseLinks)

\* C2: a request that fails while ctx.Err() is non-nil makes checkLink and
\* getProbe return false; a call on a well-formed link under a context that
\* was cancelled before the call fails and returns false.
C2_CancelledFailureNotCounted ==
  Chk.pc = "send" =>
    /\ (Chk.failed /\ Chk.ctxErr # "nil") => ~Chk.bad
    /\ (probe.startCtx # "nil" /\ Chk.link # BadURL) => (Chk.failed /\ ~Chk.bad)

C2_Witness ==
  /\ probe.entry = "checkLink"
  /\ probe.startCtx # "nil"
  /\ Chk.pc = "send"
  /\ Chk.link = LinkA.URL
  /\ Chk.failed
  /\ ~Chk.bad

\* C3: when CheckLinksWithWorkerPool has returned, every worker it started has
\* exited, no check is running, every check that was started has delivered its
\* verdict and the results channel is closed and empty; this holds in every
\* state from the return on, also under a cancelled context.
C3_ReturnsAfterWorkers ==
  pc = "returned" =>
    /\ \A w \in WorkerIds : workers[w].pc \in {"none", "exit"}
    /\ wg = 0
    /\ results = <<>>
    /\ verdictsAll = Len(taken)
    /\ links # <<>> => resultsClosed

C3_Witness ==
  /\ pc = "returned"
  /\ ctx # "nil"
  /\ \A w \in WorkerIds : workers[w].pc = "exit"
  /\ verdictsAll = MaxPageLinks
  /\ ret = 1

\* C4: the value returned equals the number of links handed to a worker whose
\* check returned true, whatever the number of workers and the interleaving.
C4_CountEqualsBadVerdicts ==
  pc = "returned" =>
    /\ ret = verdictsBad
    /\ verdictsAll = Len(taken)

C4_Witness ==
  /\ pc = "returned"
  /\ \A w \in WorkerIds : workers[w].pc = "exit"
  /\ Len(taken) = MaxPageLinks
  /\ ret = 1

\* C5: of a list longer than maxLinks exactly the first maxLinks links are sent
\* on jobs; no link beyond them is received by a worker, and the value returned
\* counts the dead links among the first min(n, maxLinks) only.
C5_AtMostMaxLinksDispatched ==
  /\ cap.sent <= Min(cap.n, maxLinks)
  /\ cap.taken <= cap.sent
  /\ cap.read <= cap.taken
  /\ cap.pc = "returned" =>
       /\ cap.sent = Min(cap.n, maxLinks)
       /\ cap.taken = cap.sent
       /\ cap.ret = Cardinality({i \in 1..Min(cap.n, maxLinks) : DeadAt(i)})

C5_Witness ==
  /\ cap.pc = "returned"
  /\ cap.n > maxLinks
  /\ cap.sent = maxLinks
  /\ cap.taken = maxLinks
  /\ cap.ret > 0

\* C6: in every result, inaccessibleCount is between 0 and min(|LinkSet|, 1000).
C6_InaccessibleWithinLinkSet ==
  stage = "Done" =>
    /\ analysis.Inaccessible >= 0
    /\ analysis.Inaccessible <= Min(Cardinality(LinkSet), maxLinks)

\* C7: in every successful result, internalCount + externalCount is the number
\* of link occurrences of the parsed page, duplicates included, and a page
\* without internal (external) links has internalCount (externalCount) 0.
C7_CountsCoverAllOccurrences ==
  stage = "Done" =>
    /\ analysis.Internal + analysis.External = Len(parseLinks)
    /\ analysis.Internal >= 0
    /\ analysis.External >= 0
    /\ (\A i \in 1..Len(parseLinks) : ~parseLinks[i].IsInternal) => analysis.Internal = 0
    /\ (\A i \in 1..Len(parseLinks) : parseLinks[i].IsInternal) => analysis.External = 0

C7_Witness ==
  /\ stage = "Done"
  /\ ~NoDuplicates(parseLinks)
  /\ analysis.Internal >= 1
  /\ analysis.External >= 2

\* C8: after a HEAD answered 403 or 405, the verdict is that of the GET: a GET
\* is answered (unless a request failed), and the link is inaccessible exactly
\* if the GET's status is >= 400.
C8_GetDecidesAfterRejectedHead ==
  (Chk.pc = "send" /\ Chk.head \in {403, 405} /\ ~Chk.failed) =>
    /\ Chk.get # 0
    /\ Chk.bad = (Chk.get >= 400)

C8_Witness ==
  /\ Chk.pc = "send"
  /\ Chk.head = 403
  /\ Chk.get = 200
  /\ ~Chk.bad

\* C9: a link is inaccessible iff its resolved status code is >= 400, or the
\* request could not be made or failed while the context was not cancelled; so
\* 2xx and 3xx are accessible (one request, the redirect is not followed) and
\* 401, 404 and 5xx are inaccessible.
C9_FinalVerdict ==
  Chk.pc = "send" =>
    Chk.bad = \/ Chk.link = BadURL
              \/ Chk.failed /\ Chk.ctxErr = "nil"
              \/ ~Chk.failed /\ Resolved >= 400

C9_Witness ==
  /\ Chk.pc = "send"
  /\ Chk.head = 301
  /\ Chk.dos = 1
  /\ ~Chk.bad

\* C10: for a malformed link checkLink returns true without calling
\* client.Do: no request is made.
C10_MalformedIsInaccessible ==
  (Chk.pc = "send" /\ Chk.link = BadURL) =>
    /\ Chk.bad
    /\ Chk.dos = 0
    /\ Chk.head = 0
    /\ Chk.get = 0
    /\ ~Chk.failed

C10_Witness ==
  /\ probe.entry = "checkLink"
  /\ Chk.pc = "send"
  /\ Chk.link = BadURL
  /\ Chk.bad
  /\ Chk.dos = 0

\* ------------------------------------------------------------- C11 .. C16
\* The target is an absolute URL with scheme http or https and a host.
AbsoluteHTTP(t) == ~t.parseErr /\ t.Scheme \in {"http", "https"} /\ t.Host # ""

\* Analyze was called and validation is over.
Validated == stage \notin {"Validate", "Direct"}

\* C11: an input that is not an absolute http(s) URL with a host makes Analyze
\* fail with InvalidInput and the Fetcher is never called for it; an absolute
\* http(s) URL with a host passes validation and the Fetcher is called (it is
\* the next thing Analyze does, or it has been called).
C11_OnlyAbsoluteHTTPIsFetched ==
  /\ hist.fetchCalls > 0 => AbsoluteHTTP(target)
  /\ Validated /\ ~AbsoluteHTTP(target) =>
       stage = "Error" /\ err.Kind = "InvalidInput" /\ hist.fetchCalls = 0
  /\ Validated /\ AbsoluteHTTP(target) =>
       err.Kind # "InvalidInput" /\ (stage = "Fetch" \/ hist.fetchCalls = 1)

C11_Witness ==
  stage = "Error" /\ target.Scheme = "ftp" /\ target.Host # "" /\ err.Kind = "InvalidInput"

\* C12: when Fetch returns no error and a status code >= 400, Analyze fails
\* with Unreachable and that code as upstream status; Parse is not called and
\* the link checker is not called.
C12_ErrorStatusIsUnreachable ==
  hist.fetchCalls = 1 /\ hist.fetchErr = "nil" /\ hist.statusCode >= 400 =>
    /\ stage = "Error"
    /\ err.Kind = "Unreachable"
    /\ err.UpstreamStatus = hist.statusCode
    /\ hist.parseCalls = 0 /\ parseLinks = <<>>
    /\ hist.probeCalls = 0 /\ pc = "idle"

C12_Witness ==
  stage = "Error" /\ hist.fetchErr = "nil" /\ hist.statusCode = 404 /\ err.UpstreamStatus = 404

\* C13: when Fetch returns an error, Analyze fails with Unreachable, the error
\* of Fetch is what Unwrap gives, there is no upstream status, and neither
\* Parse nor the link checker is called.
C13_FetchErrorIsTheCause ==
  hist.fetchErr # "nil" =>
    /\ stage = "Error"
    /\ err.Kind = "Unreachable"
    /\ Unwrap(err) = hist.fetchErr
    /\ err.UpstreamStatus = 0
    /\ hist.parseCalls = 0 /\ parseLinks = <<>>
    /\ hist.probeCalls = 0 /\ pc = "idle"

C13_Witness ==
  stage = "Error" /\ hist.fetchErr = "connection refused" /\ err.Cause = "connection refused"

\* C14: Parse succeeds exactly when the token stream ends with io.EOF; on any
\* other stream error there is no parse result, Analyze fails with
\* ParsingFailed and the link checker is not called.
C14_OnlyCleanEndOfStreamParses ==
  hist.parseCalls = 1 =>
    /\ hist.zErr = "EOF" => stage \in {"Collect", "Probe", "Done"} /\ err = NoError
    /\ hist.zErr # "EOF" =>
         /\ stage = "Error"
         /\ err.Kind = "ParsingFailed"
         /\ err.Cause = hist.zErr
         /\ parseLinks = <<>>
         /\ hist.probeCalls = 0 /\ pc = "idle"

C14_Witness ==
  stage = "Error" /\ hist.zErr = "unexpected EOF" /\ err.Kind = "ParsingFailed"

\* C15: once validation, fetch and parse succeeded, no probe outcome fails
\* Analyze: from the call of the link checker on, the only thing Analyze does
\* is return the result, with the count the link checker returned, and it does
\* so for every count (it can take that step as soon as the checker returned).
C15_ProbingNeverFails ==
  /\ [](stage \in {"Collect", "Probe", "Done"} => err = NoError)
  /\ [](stage = "Probe" /\ pc = "returned" => ENABLED Finish)
  /\ [][stage = "Probe" =>
          /\ stage' \in {"Probe", "Done"}
          /\ stage' = "Done" => analysis'.Inaccessible = ret /\ err' = NoError]_vars

\* Every link of the page was judged inaccessible, and Analyze succeeded.
C15_Witness ==
  /\ stage = "Done"
  /\ Len(linkURLs) >= 2
  /\ analysis.Inaccessible = Len(linkURLs)
  /\ err = NoError

\* The steps Analyze may take from one stage to the next.
StageOrder ==
  { <<"Validate", "Fetch">>, <<"Fetch", "Parse">>, <<"Parse", "Collect">>,
    <<"Collect", "Probe">>, <<"Probe", "Done">>,
    <<"Validate", "Error">>, <<"Fetch", "Error">>, <<"Parse", "Error">> }

\* C16: Analyze moves through Validate, Fetch, Parse, Probe, Done in this
\* order (the loop that collects the link URLs opens the Probe stage); Fetch
\* is called at most once and after validation, Parse at most once and after
\* a fetch with no error and a status < 400, the link checker at most once and
\* after a successful parse; nothing runs after Done or Error; Done has a
\* result and no error, Error an error and no result; every run reaches one
\* of the two.
C16_StagesInOrder ==
  /\ [][/\ stage' # stage => <<stage, stage'>> \in StageOrder
        /\ hist'.fetchCalls # hist.fetchCalls =>
             stage = "Fetch" /\ hist.fetchCalls = 0 /\ AbsoluteHTTP(target)
        /\ hist'.parseCalls # hist.parseCalls =>
             /\ stage = "Parse" /\ hist.parseCalls = 0
             /\ hist.fetchCalls = 1 /\ hist.fetchErr = "nil" /\ hist.statusCode < 400
        /\ hist'.probeCalls # hist.probeCalls =>
             /\ stage = "Collect" /\ hist.probeCalls = 0
             /\ hist.parseCalls = 1 /\ hist.zErr = "EOF"
        /\ stage \in {"Done", "Error"} => UNCHANGED <<engineVars, poolVars>>]_vars
  /\ [](/\ stage = "Done" => analysis # NoAnalysis /\ err = NoError
        /\ stage = "Error" => analysis = NoAnalysis /\ err # NoError
        /\ stage \in {"Validate", "Fetch", "Parse", "Collect", "Probe"} =>
             analysis = NoAnalysis /\ err = NoError
        /\ stage \notin {"Collect", "Probe", "Done"} /\ stage # "Direct" => pc = "idle")
  /\ (stage = "Validate" ~> stage \in {"Done", "Error"})

\* A run that went through every stage.
C16_Witness ==
  /\ stage = "Done"
  /\ hist.fetchCalls = 1 /\ hist.parseCalls = 1 /\ hist.probeCalls = 1
  /\ analysis # NoAnalysis

\* ------------------------------------------------------------- C17 .. C18
\* The outermost error of the chain the Service returned.
Surfaced == Head(http.svcErr)

\* C17: when the provider returned an error and the deadline of the context
\* had been exceeded when the Service looked at it, the error the Service
\* returns is an AppError of kind Timeout, whatever the provider's error was
\* (which it keeps as the cause), and the response has status 504.
C17_DeadlineMakesTimeout ==
  http.pc \in {"handler", "responded"} /\ http.provErr # NilError
    /\ http.ctxSeen = "DeadlineExceeded" =>
      /\ Surfaced.isApp /\ Surfaced.Kind = "Timeout"
      /\ Tail(http.svcErr) = http.provErr
      /\ http.pc = "responded" => http.resp.status = 504

C17_Witness ==
  /\ http.pc = "responded"
  /\ http.ctxSeen = "DeadlineExceeded"
  /\ Head(http.provErr).Kind = "InvalidInput"
  /\ http.resp.status = 504

\* C18: a failed analysis is answered 400 for InvalidInput, 502 for
\* Unreachable, 504 for Timeout, 500 for ParsingFailed and Unknown, and 500
\* for an error that is no AppError; the status_code of every error body is
\* the status written.
C18_StatusByKind ==
  http.pc = "responded" =>
    /\ http.resp.status # 200 => http.resp.body.status_code = http.resp.status
    /\ http.svcErr # NilError =>
         http.resp.status =
           (IF ~Surfaced.isApp THEN 500
            ELSE IF Surfaced.Kind = "InvalidInput" THEN 400
            ELSE IF Surfaced.Kind = "Unreachable" THEN 502
            ELSE IF Surfaced.Kind = "Timeout" THEN 504
            ELSE 500)
    /\ http.svcErr # NilError /\ Surfaced.Kind \in {"ParsingFailed", "Unknown"} =>
         http.resp.status = 500

C18_Witness ==
  /\ http.pc = "responded"
  /\ http.svcErr # NilError
  /\ Surfaced.Kind = "Unreachable"
  /\ http.resp.status = 502
  /\ http.resp.body.status_code = 502

\* ------------------------------------------------------------- C19 .. C20
\* C19: a fetch follows at most maxRedirects redirects (it makes at most
\* maxRedirects requests in all), and only to http and https URLs; a redirect
\* that is turned down ends the fetch with the too-many-redirects error when
\* the chain holds maxRedirects requests already, and with the blocked-scheme
\* error when the target is not http(s); a target that is not http(s) is
\* never followed, at any depth.
C19_RedirectsBoundedAndHTTPOnly ==
  /\ Len(redirect.via) <= maxRedirects
  /\ Len(redirect.via) - 1 <= maxRedirects
  /\ \A i \in 1..Len(redirect.via) : redirect.via[i] \in {"http", "https"}
  /\ redirect.refused # "" =>
       /\ redirect.pc = "done"
       /\ redirect.err \in {"too many redirects", "redirect to non-http(s) scheme blocked"}
       /\ redirect.err = "too many redirects" <=> Len(redirect.via) = maxRedirects
       /\ redirect.err = "redirect to non-http(s) scheme blocked" =>
            redirect.refused \notin {"http", "https"}
  /\ redirect.pc = "done" /\ redirect.refused = "" => redirect.err = "nil"

\* The sixth request of a chain of http(s) redirects is turned down.
C19_Witness ==
  /\ redirect.pc = "done"
  /\ Len(redirect.via) = maxRedirects
  /\ redirect.refused = "https"
  /\ redirect.err = "too many redirects"

\* The address that was dialled, as an IPv4 address when it is one or maps one.
Dialled == Unmap(dial.addr)

\* The dialled address is in the IPv4 network a.b.0.0/16, or a.b.c.0/24.
In16(a, b) == Dialled.is4 /\ Dialled.w[1] = a /\ Dialled.w[2] = b
In24(a, b, c) == In16(a, b) /\ Dialled.w[3] = c

\* C20: 127.0.0.1, 10.0.0.1, 169.254.169.254, ::1 and ::ffff:127.0.0.1 are
\* blocked and 8.8.8.8 is not; blocked are the addresses that are not global
\* unicast (unspecified, broadcast, loopback, multicast, link-local), the
\* RFC 1918 networks 10/8, 172.16/12 and 192.168/16, and the reserved
\* prefixes 100.64/10, 192.0.0/24, 192.0.2/24, 198.18/15, 198.51.100/24 and
\* 203.0.113/24; ::ffff:x is blocked exactly when x is.
C20_ClassifierBlocksReserved ==
  dial.pc = "done" /\ dial.parsed =>
    /\ dial.addr \in {IPv4(127, 0, 0, 1), IPv4(10, 0, 0, 1), IPv4(169, 254, 169, 254),
                      IPv6(<<0, 0, 0, 0, 0, 0, 0, 1>>), Mapped(IPv4(127, 0, 0, 1))} => dial.blocked
    /\ dial.addr = IPv4(8, 8, 8, 8) => ~dial.blocked
    /\ Dialled.is4 /\ Dialled.w \in {<<0, 0, 0, 0>>, <<255, 255, 255, 255>>} => dial.blocked
    /\ Dialled.is4 /\ Dialled.w[1] = 127 => dial.blocked
    /\ Dialled.is4 /\ Dialled.w[1] \in 224..239 => dial.blocked
    /\ In16(169, 254) => dial.blocked
    /\ ~Dialled.is4 /\ Dialled.w = <<0, 0, 0, 0, 0, 0, 0, 0>> => dial.blocked
    /\ ~Dialled.is4 /\ Dialled.w[1] \in 65280..65535 => dial.blocked
    /\ ~Dialled.is4 /\ Dialled.w[1] \in 65152..65215 => dial.blocked
    /\ Dialled.is4 /\ Dialled.w[1] = 10 => dial.blocked
    /\ Dialled.is4 /\ Dialled.w[1] = 172 /\ Dialled.w[2] \in 16..31 => dial.blocked
    /\ In16(192, 168) => dial.blocked
    /\ Dialled.is4 /\ Dialled.w[1] = 100 /\ Dialled.w[2] \in 64..127 => dial.blocked
    /\ In24(192, 0, 0) \/ In24(192, 0, 2) \/ In24(198, 51, 100) \/ In24(203, 0, 113) => dial.blocked
    /\ In16(198, 18) \/ In16(198, 19) => dial.blocked
    /\ Is4In6(dial.addr) => (dial.blocked <=> isBlockedIP(Dialled))

\* A reserved address dialled in its IPv4-mapped form was blocked.
C20_Witness ==
  /\ dial.pc = "done"
  /\ dial.addr = Mapped(IPv4(100, 64, 0, 1))
  /\ dial.blocked

\* ------------------------------------------------------------- C21 .. C26
\* Parse is running or has returned.
Parsing == parse.pc \in {"loop", "done"}

\* The tokens the loop of Parse has consumed so far.
Consumed == parse.pos - 1

OpensTag(token, tag) == token.Type \in {"StartTag", "SelfClosingTag"} /\ token.Data = tag

\* C21 (as claimed): of several title elements only the first is kept: once a
\* title has been captured, a later title element with text does not change it.
C21_FirstTitleIsKept ==
  [][(parse.pc = "loop" /\ parse'.pc = "loop" /\ parse.p.result.Title # "")
       => parse'.p.result.Title = parse.p.result.Title]_vars

\* The spellings of "password" among the type values of the documents.
PasswordSpellings == {"password", "PASSWORD", "Password"}

PasswordInput(token) ==
  /\ OpensTag(token, "input")
  /\ \E k \in 1..Len(token.Attr) : token.Attr[k].Key = "type" /\ token.Attr[k].Val \in PasswordSpellings

\* C22: HasLoginForm is true exactly when an input start tag whose type is
\* "password" in any letter case has been read: it is set by such a tag, stays
\* true afterwards, and is false at the end of a document that has none.
C22_LoginFormIffPasswordInput ==
  Parsing =>
    /\ parse.p.result.HasLoginForm
         <=> \E i \in 1..Consumed : PasswordInput(parse.tokens[i])
    /\ (parse.pc = "done" /\ parse.err = "nil")
         => (parse.ret[1].HasLoginForm
               <=> \E i \in 1..Len(parse.tokens) : PasswordInput(parse.tokens[i]))

C22_Witness ==
  /\ parse.pc = "done"
  /\ parse.err = "nil"
  /\ parse.ret[1].HasLoginForm
  /\ Len(parse.tokens) = MaxTags
  /\ ~PasswordInput(parse.tokens[1])
  /\ parse.tokens[2] = Token("SelfClosingTag", "input", <<Attribute("name", "pw"), Attribute("type", "PASSWORD")>>)
  /\ parse.tokens[3] = Token("StartTag", "input", <<Attribute("type", "text")>>)

\* C23: the headings map has exactly the keys h1..h6, all 0 when Parse starts,
\* and the counter of hk is the number of start or self-closing hk tags read so
\* far: end tags and other tokens leave the counters alone.
C23_HeadingsCountStartTags ==
  Parsing =>
    /\ DOMAIN parse.p.result.Headings = {"h1", "h2", "h3", "h4", "h5", "h6"}
    /\ \A h \in {"h1", "h2", "h3", "h4", "h5", "h6"} :
         parse.p.result.Headings[h]
           = Cardinality({i \in 1..Consumed : OpensTag(parse.tokens[i], h)})
    /\ (parse.pc = "done" /\ parse.err = "nil") => parse.ret[1].Headings = parse.p.result.Headings

C23_Witness ==
  /\ parse.pc = "done"
  /\ parse.err = "nil"
  /\ parse.tokens = <<Token("StartTag", "h1", <<>>), Token("EndTag", "h1", <<>>), Token("StartTag", "h1", <<>>),
                      Token("SelfClosingTag", "h2", <<Attribute("id", "sub")>>), Token("StartTag", "h7", <<>>)>>
  /\ parse.ret[1].Headings =
       [h \in HeadingTags |-> IF h = "h1" THEN 2 ELSE IF h = "h2" THEN 1 ELSE 0]

HasHref(token) == OpensTag(token, "a") /\ \E k \in 1..Len(token.Attr) : token.Attr[k].Key = "href"

Href(token) ==
  token.Attr[CHOOSE k \in 1..Len(token.Attr) :
               token.Attr[k].Key = "href" /\ \A j \in 1..(k - 1) : token.Attr[j].Key # "href"].Val

\* The links of the first n tokens: every href that parses (and, unless
\* emptyToo, is not empty) is resolved against the base, dropped when the
\* resolved scheme is not http or https, and otherwise appended with the flag
\* "resolved host equals the base host, letter case aside".
RECURSIVE LinksOf(_, _, _, _)
LinksOf(tokens, n, baseURL, emptyToo) ==
  IF n = 0 THEN <<>>
  ELSE LET before == LinksOf(tokens, n - 1, baseURL, emptyToo)
           token == tokens[n]
       IN  IF /\ HasHref(token)
              /\ emptyToo \/ Href(token) # ""
              /\ ~urlParse(Href(token)).parseErr
              /\ ResolveReference(baseURL, urlParse(Href(token))).Scheme \in {"http", "https"}
           THEN LET resolved == ResolveReference(baseURL, urlParse(Href(token)))
                IN  Append(before,
                           Link(urlString(resolved),
                                stringsToLower(Chars[resolved.Host]) = stringsToLower(Chars[baseURL.Host])))
           ELSE before

\* C24 (as claimed): with base host example.com every anchor href is resolved
\* against the base, dropped only for a scheme other than http or https,
\* classed internal iff its host equals the base host in any letter case, and
\* every kept occurrence is appended in document order, duplicates included.
C24_EveryHrefResolved ==
  Parsing => parse.p.result.Links = LinksOf(parse.tokens, Consumed, parse.baseURL, TRUE)

\* C24 (amended): the same for every anchor href that is not empty and parses
\* as a URL; an empty or unparsable href adds no link.
C24_NonEmptyHrefsResolved ==
  Parsing =>
    /\ parse.baseURL.Host = "example.com"
    /\ parse.p.result.Links = LinksOf(parse.tokens, Consumed, parse.baseURL, FALSE)
    /\ (parse.pc = "done" /\ parse.err = "nil") => parse.ret[1].Links = parse.p.result.Links

C24_Witness ==
  /\ parse.pc = "done"
  /\ parse.err = "nil"
  /\ parse.tokens = <<Token("StartTag", "a", <<Attribute("href", "https://EXAMPLE.COM/contact")>>),
                      Token("StartTag", "a", <<Attribute("href", "mailto:test@example.com")>>),
                      Token("StartTag", "a", <<Attribute("href", "https://EXAMPLE.COM/contact")>>)>>
  /\ parse.ret[1].Links = <<Link("https://EXAMPLE.COM/contact", TRUE),
                            Link("https://EXAMPLE.COM/contact", TRUE)>>

\* A doctype has a public identifier when the keyword PUBLIC, in any letter
\* case, follows its name.
HasPublicIdentifier(data) ==
  LET s == stringsToLower(Chars[data])
      spaces == {i \in 1..Len(s) : s[i] \in Whitespace}
  IN  /\ spaces # {}
      /\ LET nameEnd == CHOOSE i \in spaces : \A k \in spaces : i <= k
             after == {i \in (nameEnd + 1)..Len(s) : s[i] \notin Whitespace}
         IN  /\ after # {}
             /\ LET start == CHOOSE i \in after : \A k \in after : i <= k
                IN  /\ start + 5 <= Len(s)
                    /\ SubSeq(s, start, start + 5) = Chars["public"]

Mentions(data, substr) == stringsContains(stringsToLower(Chars[data]), Chars[substr])

\* The version the priority table gives a doctype that is not HTML5.
TableVersion(data) ==
  IF Mentions(data, "xhtml 1.1") \/ Mentions(data, "xhtml basic 1.1") THEN "XHTML 1.1"
  ELSE IF Mentions(data, "xhtml 1.0") THEN "XHTML 1.0"
  ELSE IF Mentions(data, "html 4.01") THEN "HTML 4.01"
  ELSE "Unknown"

Doctypes == {i \in 1..Consumed : parse.tokens[i].Type = "Doctype"}

LastDoctype == parse.tokens[CHOOSE i \in Doctypes : \A k \in Doctypes : k <= i].Data

C27_CauseNeverShown ==
  http.pc = "responded" /\ http.resp.status # 200 =>
    /\ http.responses = 1
    /\ DOMAIN http.resp.body = {"error", "status_code", "message"}
    /\ http.provErr # NilError =>
         /\ SubSeq(http.svcErr, Len(http.svcErr) - Len(http.provErr) + 1, Len(http.svcErr))
              = http.provErr
         /\ \A other \in ProviderErrors :
              Head(other) = Head(http.provErr)
                => handleServiceError(Reclassify(other, http.ctxSeen)) = http.resp
         /\ \A i \in 2..Len(http.svcErr) : http.resp.body.message # http.svcErr[i].Message

C27_Witness ==
  /\ http.pc = "responded"
  /\ http.ctxSeen = "nil"
  /\ Len(http.provErr) > 1
  /\ Head(http.provErr) = AppError("Unreachable", 0, "The provided URL could not be reached. Check the address.")
  /\ http.svcErr[2] = PlainError("dial tcp: connection refused")
  /\ http.resp = renderError(502, "The provided URL could not be reached. Check the address.")
  /\ \E other \in ProviderErrors : other # http.provErr /\ Head(other) = Head(http.provErr)

\* ------------------------------------------------------------- C28 .. C30
\* The workers that are inside checkLink or about to send its verdict.
Busy == {w \in WorkerIds : workers[w].pc \in {"head", "get", "send"}}

\* C28: the tally has one writer: it changes only in a step of the collecting
\* loop of the main goroutine, which takes one verdict off results and adds 1
\* for a true one; a worker never touches it: all a worker does with results
\* is send the one verdict of the link it has just checked, so the verdicts
\* sent and the checks still running add up to the links received.
C28_SingleCollector ==
  /\ [](Len(taken) = verdictsAll + Cardinality(Busy))
  /\ [][/\ inaccessible' # inaccessible =>
             /\ pc = "collect" /\ pc' = "collect"
             /\ results # <<>> /\ results' = Tail(results)
             /\ Head(results)
             /\ inaccessible' = inaccessible + 1
             /\ workers' = workers
        /\ workers' # workers => inaccessible' = inaccessible
        /\ (workers' # workers /\ results' # results) =>
             \E w \in WorkerIds :
               /\ workers[w].pc = "send" /\ workers'[w].pc = "recv"
               /\ \A v \in WorkerIds \ {w} : workers'[v] = workers[v]
               /\ results' = Append(results, workers[w].bad)
               /\ verdictsAll' = verdictsAll + 1]_vars

C28_Witness ==
  /\ pc = "collect"
  /\ inaccessible = 1
  /\ results = <<FALSE>>
  /\ \E w \in WorkerIds : workers[w].pc = "send" /\ workers[w].bad
  /\ verdictsAll = 2

\* The workers the pool has started.
Started == {w \in WorkerIds : workers[w].pc # "none"}

\* C29: once the pool is started on N capped links it has exactly
\* min(N, concurrency) workers, never more checks in flight than that, and no
\* worker is started later.
C29_FixedPool ==
  /\ []((pc \in {"enqueue", "collect", "returned"} /\ links # <<>>) =>
          /\ Len(links) <= maxLinks
          /\ Cardinality(Started) = (IF Len(links) <= concurrency THEN Len(links) ELSE concurrency)
          /\ Cardinality(Busy) <= (IF Len(links) <= concurrency THEN Len(links) ELSE concurrency)
          /\ Cardinality(Busy) <= concurrency)
  /\ [][pc # "call" => \A w \in WorkerIds : workers[w].pc = "none" => workers'[w].pc = "none"]_vars

C29_Witness ==
  /\ pc = "collect"
  /\ Len(links) = MaxPageLinks
  /\ concurrency = MaxConcurrency
  /\ Cardinality(Busy) = MaxConcurrency
  /\ jobs # <<>>

\* C30: a call of checkLink sends a HEAD first and at most one request more:
\* the GET with Range bytes=0-0, sent in the step that handles a HEAD answered
\* 403 or 405, sent in every such call and in no other, and never sent twice.
\* Any other status, a failed request and a cancelled context end the call
\* after the one request.
C30_HeadThenAtMostOneGet ==
  /\ [](probe.entry = "checkLink" =>
          /\ Chk.reqs \in {<<>>, <<Request("head")>>, <<Request("head"), Request("get")>>}
          /\ Request("head") = [Method |-> "HEAD", Range |-> ""]
          /\ Request("get") = [Method |-> "GET", Range |-> "bytes=0-0"]
          /\ Len(Chk.reqs) = 2 => Chk.head \in {403, 405}
          /\ Chk.pc = "send" /\ Chk.head \in {403, 405} => Len(Chk.reqs) = 2
          /\ Chk.pc \in {"send", "head", "get"} /\ Chk.link # BadURL => Len(Chk.reqs) >= 1
          /\ Chk.pc = "get" => Len(Chk.reqs) = 2)
  /\ [][(probe.entry = "checkLink" /\ probe'.entry = "checkLink"
           /\ Len(probe'.chk.reqs) > Len(probe.chk.reqs)) =>
          /\ probe.chk.pc = "head"
          /\ probe.chk.reqs = <<Request("head")>>
          /\ probe'.chk.reqs = <<Request("head"), Request("get")>>
          /\ probe'.chk.head \in {403, 405}]_vars

C30_Witness ==
  /\ probe.entry = "checkLink"
  /\ Chk.pc = "send"
  /\ Chk.head = 405
  /\ Chk.get = 403
  /\ Chk.reqs = <<Request("head"), Request("get")>>
  /\ Chk.bad

\* ------------------------------------------------------------- C31 .. C40
\* A worker of the pool ends a call of checkLink in this step.
Returns(w) == workers[w].pc # "send" /\ workers'[w].pc = "send"

\* C31: once ctx.Err() is non-nil, a call of checkLink that a worker ends
\* because client.Do returned an error (for the HEAD or for the GET) returns
\* false, the result the worker sends is that verdict, and the collector does
\* not count it; and a pool with workers that is running under such a context
\* still receives every queued link and returns.
C31_CutFailuresNotCounted ==
  /\ [][/\ \A w \in WorkerIds :
             (ctx # "nil" /\ Returns(w) /\ workers'[w].failed) => ~workers'[w].bad
        /\ \A w \in WorkerIds :
             (workers[w].pc = "send" /\ workers'[w].pc # "send") =>
               results' = Append(results, workers[w].bad)
        /\ (inaccessible' # inaccessible) =>
             (results # <<>> /\ Head(results) /\ inaccessible' = inaccessible + 1)]_vars
  /\ ((ctx # "nil" /\ concurrency >= 1 /\ pc \in {"enqueue", "collect"}) ~>
        (pc = "returned" /\ jobs = <<>> /\ taken = links))

\* Under a cancelled context a worker holds the verdict false of a request
\* that failed, while a link is still queued.
C31_Witness ==
  /\ ctx # "nil"
  /\ \E w \in WorkerIds :
       workers[w].pc = "send" /\ workers[w].failed /\ ~workers[w].bad
  /\ jobs # <<>>
  /\ pc = "collect"

\* C32: never more than maxResponseBody (10 MiB) bytes are read from the
\* response body, whatever its length; of a body longer than that exactly the
\* first maxResponseBody bytes are read, the stream then ends with io.EOF and
\* Parse returns its result, not an error.
C32_BodyReadIsCapped ==
  /\ body.off <= maxResponseBody
  /\ body.off <= body.length
  /\ body.pc # "idle" => body.N = maxResponseBody - body.off
  /\ (body.pc \in {"ended", "parsed"} /\ body.length > maxResponseBody) =>
       /\ body.off = maxResponseBody
       /\ body.zErr = "EOF"
  /\ (body.pc = "parsed" /\ body.length > maxResponseBody) => body.ret = "result"

\* A body of twice the cap, whose connection then breaks, was parsed.
C32_Witness ==
  /\ body.pc = "parsed"
  /\ body.length = 2 * maxResponseBody
  /\ body.end = "unexpected EOF"
  /\ body.off = maxResponseBody
  /\ body.ret = "result"

\* The token the loop of Parse consumes in this step.
Current == parse.tokens[parse.pos]

\* No white space at either end.
IsTrimmed(bytes) ==
  bytes # <<>> => (bytes[1] \notin Whitespace /\ bytes[Len(bytes)] \notin Whitespace)

\* C33: the title changes only when a text token is read while inTitle is set,
\* and becomes that text without the white space around it; inTitle is set by
\* a title start tag only, holds only right after that tag, and is cleared by
\* the text token so captured or by the title end tag: after <title></title>
\* the title is what it was, and text read later is not taken.
C33_TitleFromTextInOpenTitle ==
  /\ [][(parse.pc = "loop" /\ parse'.pc = "loop" /\ parse'.pos = parse.pos + 1) =>
          /\ parse'.p.result.Title # parse.p.result.Title =>
               /\ Current.Type = "Text"
               /\ parse.p.inTitle
          /\ (Current.Type = "Text" /\ parse.p.inTitle) =>
               /\ parse'.p.result.Title = String(stringsTrimSpace(Chars[Current.Data]))
               /\ ~parse'.p.inTitle
          /\ Current = Token("EndTag", "title", <<>>) => ~parse'.p.inTitle
          /\ parse'.p.inTitle => OpensTag(Current, "title")]_vars
  /\ [](Parsing =>
          /\ IsTrimmed(Chars[parse.p.result.Title])
          /\ parse.p.inTitle => (Consumed >= 1 /\ OpensTag(parse.tokens[Consumed], "title")))

\* Parse returned an empty title for <title></title> followed by text.
C33_Witness ==
  /\ parse.pc = "done"
  /\ parse.run = "first"
  /\ parse.tokens = <<Token("StartTag", "title", <<>>), Token("EndTag", "title", <<>>),
                      Token("Text", " First ", <<>>)>>
  /\ parse.ret # <<>>
  /\ parse.ret[1].Title = ""

\* The request bodies handleAnalyze turns down.
Rejected == {"not JSON", "{\"url\": \"\"}"}

\* C34: a body that is not JSON, or whose url is empty, is answered 400 and
\* the service is not called; for every other request the service is called
\* once, and one response is written: 200 with the result when the service
\* returned no error, one error object otherwise.
C34_ValidateThenOneCallOneResponse ==
  /\ http.serviceCalls <= 1
  /\ http.responses = (IF http.pc = "responded" THEN 1 ELSE 0)
  /\ http.reqBody \in Rejected =>
       /\ http.serviceCalls = 0
       /\ http.pc \in {"decode", "responded"}
       /\ http.pc = "responded" => http.resp.status = 400
  /\ (http.reqBody \notin Rejected /\ http.pc \notin {"idle", "decode"}) =>
       /\ http.serviceCalls = 1
       /\ http.pc = "responded" =>
            IF http.svcErr = NilError
              THEN http.resp.status = 200 /\ http.resp.body \in Analyses
              ELSE /\ http.resp.status \in {400, 500, 502, 504}
                   /\ DOMAIN http.resp.body = {"error", "status_code", "message"}

\* A request without url was answered 400, the service not being called.
C34_Witness ==
  /\ http.pc = "responded"
  /\ http.reqBody = "{\"url\": \"\"}"
  /\ http.serviceCalls = 0
  /\ http.responses = 1
  /\ http.resp.status = 400

\* C35: a call of CheckLinksWithWorkerPool returns, whatever the number of
\* links and of workers and the interleaving: the enqueue loop never finds
\* jobs full and a worker never finds results full or closed (both channels
\* hold as many values as there are capped links), results is closed once,
\* when every worker has exited, and then stays closed; on an empty list the
\* call returns 0 and no worker is started.
C35_PoolTerminates ==
  /\ [](/\ (pc = "enqueue" /\ sent < Len(links)) => (Len(jobs) < Len(links) /\ ~jobsClosed)
        /\ \A w \in WorkerIds :
             workers[w].pc = "send" => (Len(results) < Len(links) /\ ~resultsClosed)
        /\ resultsClosed =>
             (wg = 0 /\ closer = "done" /\ \A w \in WorkerIds : workers[w].pc \in {"none", "exit"})
        /\ (pc = "returned" /\ links = <<>>) =>
             (ret = 0 /\ \A w \in WorkerIds : workers[w].pc = "none"))
  /\ [][/\ resultsClosed => resultsClosed'
        /\ closer = "done" => closer' = "done"
        /\ pc = "returned" => UNCHANGED poolVars]_vars
  /\ (pc \in {"call", "enqueue", "collect"} ~> pc = "returned")

\* The pool returned after both workers had exited and results was closed.
C35_Witness ==
  /\ pc = "returned"
  /\ resultsClosed
  /\ concurrency = MaxConcurrency
  /\ sent = MaxPageLinks
  /\ verdictsAll = MaxPageLinks
  /\ \A w \in WorkerIds : workers[w].pc = "exit"
  /\ ctx = "nil"

\* The checks of the workers that have not delivered their verdict yet.
InFlight == Cardinality({w \in WorkerIds : workers[w].pc \in {"head", "get", "send"}})

\* C36: with at least one worker, the links received by workers are the
\* capped list in order, each received once and by one worker; every check
\* delivers one verdict, and when the call returns every link of the capped
\* list has been received and as many verdicts as links have been sent and
\* collected; the context being cancelled changes none of this.
C36_EachLinkCheckedOnce ==
  /\ [](concurrency >= 1 =>
          /\ Len(taken) <= Min(Len(links), maxLinks)
          /\ taken = SubSeq(links, 1, Len(taken))
          /\ Len(taken) + Len(jobs) = sent
          /\ verdictsAll + InFlight = Len(taken)
          /\ pc = "returned" =>
               /\ taken = links
               /\ Len(links) = Min(Len(links), maxLinks)
               /\ verdictsAll = Len(links)
               /\ results = <<>>)
  /\ [][taken' # taken =>
          /\ taken' = Append(taken, links[Len(taken) + 1])
          /\ Cardinality({w \in WorkerIds : workers'[w] # workers[w]}) = 1
          /\ \E w \in WorkerIds : workers[w].pc = "recv" /\ workers'[w].pc \in {"head", "get", "send"}]_vars

\* The pool returned under a context cancelled while links were queued.
C36_Witness ==
  /\ pc = "returned"
  /\ ctx # "nil"
  /\ concurrency = 1
  /\ taken = links
  /\ Len(links) = MaxPageLinks
  /\ verdictsAll = MaxPageLinks
  /\ verdictsBad = 2

\* Analyze has returned.
Returned == stage \in {"Done", "Error"}

\* C37: when Fetch returned no error the body is closed exactly once, in the
\* step in which Analyze returns (after the status check, after Parse failed,
\* or after the link checker returned), and never before; when validation
\* failed or Fetch returned an error, nothing is closed.
C37_BodyClosedOnceAtReturn ==
  /\ [](/\ hist.closes <= 1
        /\ ~Returned => hist.closes = 0
        /\ Returned =>
             hist.closes = (IF hist.fetchCalls = 1 /\ hist.fetchErr = "nil" THEN 1 ELSE 0))
  /\ [][hist'.closes # hist.closes =>
          /\ stage' \in {"Done", "Error"}
          /\ stage \in {"Fetch", "Parse", "Probe"}
          /\ stage = "Fetch" => hist'.statusCode >= 400
          /\ stage = "Parse" => ~ParseSucceeds(hist'.zErr)
          /\ stage = "Probe" => pc = "returned"]_vars

\* Analyze succeeded on a page with a dead link and closed the body.
C37_Witness ==
  /\ stage = "Done"
  /\ hist.closes = 1
  /\ hist.probeCalls = 1
  /\ analysis # NoAnalysis
  /\ analysis.Inaccessible = 1

\* C38: once Parse has succeeded the Engine returns no error, whatever
\* happens to the context while the links are probed: the Service, which looks
\* at the deadline only when the provider returned an error, returns the
\* result and never a Timeout, the response is 200 with the Engine's counts,
\* and a probe that fails after the deadline fired returns false, so that it
\* adds nothing to the inaccessible count.
C38_LateDeadlineStillSucceeds ==
  /\ []((hist.parseCalls = 1 /\ ParseSucceeds(hist.zErr)) =>
          /\ http.provErr = NilError
          /\ http.svcErr = NilError
          /\ stage = "Done" => analysis.Inaccessible = verdictsBad
          /\ http.pc = "responded" =>
               (http.resp.status = 200 /\ http.resp.body = analysis))
  /\ [][/\ http'.svcErr # http.svcErr => http.provErr # NilError
        /\ \A w \in WorkerIds :
             (ctx = "DeadlineExceeded" /\ Returns(w) /\ workers'[w].failed) =>
               /\ ~workers'[w].bad
               /\ verdictsBad' = verdictsBad]_vars

\* The deadline fired, every probe of the page came back false, and the
\* request was answered 200.
C38_Witness ==
  /\ http.pc = "responded"
  /\ ctx = "DeadlineExceeded"
  /\ http.resp.status = 200
  /\ Len(links) = MaxPageLinks
  /\ http.resp.body.Inaccessible = 0
  /\ hist.probeCalls = 1

\* C39: the error the Service returns differs from the provider's only when
\* the deadline of the context had been exceeded: under a live or a cancelled
\* context it is the provider's error itself, with its kind, upstream status,
\* message and cause; the error of a reclassification is a Timeout without
\* upstream status whose cause is the provider's error, whole.
C39_OnlyDeadlineReclassifies ==
  (http.pc \in {"handler", "responded"} /\ http.provErr # NilError) =>
    /\ http.svcErr # http.provErr <=> http.ctxSeen = "DeadlineExceeded"
    /\ http.ctxSeen \in {"nil", "Canceled"} =>
         /\ Len(http.svcErr) = Len(http.provErr)
         /\ \A i \in 1..Len(http.provErr) : http.svcErr[i] = http.provErr[i]
    /\ http.svcErr # http.provErr =>
         /\ Head(http.svcErr) = TimeoutError
         /\ Head(http.svcErr).UpstreamStatus = 0
         /\ Len(http.svcErr) = Len(http.provErr) + 1
         /\ \A i \in 1..Len(http.provErr) : http.svcErr[i + 1] = http.provErr[i]

\* Under a cancelled context the provider's 404 error came back as it was.
C39_Witness ==
  /\ http.pc = "handler"
  /\ http.ctxSeen = "Canceled"
  /\ Len(http.provErr) = 2
  /\ Head(http.provErr).UpstreamStatus = 404
  /\ http.svcErr = http.provErr

\* The value LINK_CHECK_CONCURRENCY is set to.
Setting == EnvChars[config.env.LINK_CHECK_CONCURRENCY]

\* The setting is a decimal numeral (with or without sign) of a number that is
\* not one of 1..100.
NumberOutsideRange ==
  LET signed == Setting # <<>> /\ Head(Setting) \in {"+", "-"}
      digits == IF signed THEN Tail(Setting) ELSE Setting
  IN  /\ digits # <<>>
      /\ \A i \in 1..Len(digits) : digits[i] \in DOMAIN Digit
      /\ \/ signed /\ Head(Setting) = "-"
         \/ Len(digits) > 3
         \/ DigitsValue(digits) \notin 1..100

\* A pool without workers: nothing is received, checked or counted.
NoWorkerRan ==
  /\ \A w \in WorkerIds : workers[w].pc = "none"
  /\ wg = 0
  /\ taken = <<>>
  /\ verdictsAll = 0
  /\ results = <<>>
  /\ inaccessible = 0
  /\ pc = "returned" => ret = 0

\* The main goroutine of the pool can take its next step.
PoolCanStep ==
  pc \in {"call", "enqueue", "collect"} =>
    ENABLED (PoolStart \/ Enqueue \/ CloseJobs \/ CloseResults \/ PoolReturn)

\* C40 (as claimed): with a concurrency <= 0 the pool starts no worker, checks
\* no link, is never stuck and returns 0; and Load returns an error whenever
\* LINK_CHECK_CONCURRENCY is set to a number outside 1..100.
C40_OutsideRangeRejected ==
  /\ concurrency <= 0 => (NoWorkerRan /\ PoolCanStep)
  /\ (config.pc = "loaded" /\ NumberOutsideRange) => config.err # "nil"

\* C40 (amended): with a concurrency <= 0 the pool starts no worker, checks no
\* link, is never stuck and returns 0; Load returns an error whenever
\* LINK_CHECK_CONCURRENCY is set to a number outside 1..100 that fits an int,
\* and takes the default 25 for a setting strconv.Atoi turns down, a number
\* too large for an int included; a configuration Load returns without error
\* has a concurrency in 1..100.
C40_ParsedOutsideRangeRejected ==
  /\ concurrency <= 0 => (NoWorkerRan /\ PoolCanStep)
  /\ config.pc = "loaded" =>
       /\ (NumberOutsideRange /\ Atoi(Setting).ok) => config.err # "nil"
       /\ ~Atoi(Setting).ok => config.cfg.LinkCheckConcurrency = 25
       /\ config.err = "nil" => config.cfg.LinkCheckConcurrency \in 1..100

\* A pool built with concurrency -1 returned 0 for a full list, which it left
\* on jobs; Load has turned down the setting -1.
C40_Witness ==
  /\ concurrency = 0 - 1
  /\ pc = "returned"
  /\ Len(links) = MaxPageLinks
  /\ jobs = links
  /\ ret = 0
  /\ config.pc = "loaded"
  /\ config.env.LINK_CHECK_CONCURRENCY = "-1"
  /\ config.env.PORT = ""
  /\ config.err = "config: LINK_CHECK_CONCURRENCY must be 1-100"

====
